---- MODULE Spec2Model ----
(***************************************************************************)
(* A model of tidyanki's deduplication engine (core/deduplication.py), of  *)
(* its package export / import path (core/export.py, import_apkg.py), of   *)
(* the vocabulary package builder and the template configuration decoder   *)
(* (core/operations.py), of the media detection (import_apkg.py) and of    *)
(* the deck listing, deck filters and filtered reads (core/tables.py), of  *)
(* the archive reads and their extraction directories (import_apkg.py),    *)
(* of the package writes on disk (operations.py, export.py, anki.py), of   *)
(* the decoder's scan loop taken one iteration at a time, and of the tool  *)
(* registry (registry_demo.py).                                            *)
(*                                                                         *)
(* Text is a sequence of one-character strings, so that the regular        *)
(* expressions, str.strip, str.lower and re.split of the source are        *)
(* computed character by character.                                        *)
(***************************************************************************)
EXTENDS Integers, Sequences, FiniteSets, TLC

VARIABLES
    text,             \* normalize_and_split: the text argument
    max_word_length,  \* normalize_and_split: the max_word_length argument
    words,            \* normalize_and_split: the returned set
    norm_pc,          \* normalize_and_split: "start" before the call, "done" after it
    collection,       \* the live Anki collection: its note rows with the decks of their cards
    apkg_notes,       \* the note rows of the external .apkg file
    call,             \* the last deduplication call: its arguments and what it returned
    archive,          \* the database that is read (an .apkg file's, or the live collection's):
                      \* its models, decks, note rows and card rows
    export_pc,        \* the import / export run: "start", "loaded", "exported", "reimported"
    original,         \* what was loaded from archive: notes, cards, models, and by which loader
    export_args,      \* the arguments of export_cards_to_deck: cards taken, model
    output,           \* the .apkg file written by export_cards_to_deck
    reimported,       \* what was loaded from output: notes, cards, models
    hash_seed,        \* the key of str hashing in the running Python process
    packages,         \* the packages built so far by the exporting functions, in call order
    media_fields,     \* detect_media_in_fields: the fields argument
    media_found,      \* detect_media_in_fields: the returned set
    media_pc,         \* detect_media_in_fields: "start" before the call, "done" after it
    template_config,  \* _decode_template_config: the config column passed as config_blob
    decoded,          \* _decode_template_config: the returned tuple
    decode_pc,        \* _decode_template_config: "start" before the call, "done" after it
    decks,            \* the decks table of the live collection: ids and stored names
    name_call,        \* the last deck listing or deck-filtered load and what it returned
    temp_dirs,        \* the extraction directories that exist, by number
    dirs_created,     \* how many extraction directories were created so far
    read_call,        \* the running or last read of an .apkg file: its position and outcome
    staging_dirs,     \* the media-staging directories that exist, by the number of the call that made them
    write_call,       \* the last package-writing call on disk: its arguments and how it ended
    scan,             \* _decode_template_config followed statement by statement: its argument, locals and position
    tools,            \* REGISTRY._tools, in insertion order
    wrappers,         \* the number of wrapper functions made so far
    decorated,        \* the last decoration: its arguments and the wrapper returned
    lookup            \* the last get_function call and its outcome

vars == <<text, max_word_length, words, norm_pc, collection, apkg_notes, call,
          archive, export_pc, original, export_args, output, reimported,
          hash_seed, packages, media_fields, media_found, media_pc,
          template_config, decoded, decode_pc, decks, name_call,
          temp_dirs, dirs_created, read_call,
          staging_dirs, write_call,
          scan,
          tools, wrappers, decorated, lookup>>

normVars == <<text, max_word_length, words, norm_pc>>
dedupVars == <<collection, apkg_notes, call>>
exportVars == <<archive, export_pc, original, export_args, output, reimported>>
packageVars == <<packages>>
mediaVars == <<media_fields, media_found, media_pc>>
decodeVars == <<template_config, decoded, decode_pc>>
nameVars == <<decks, name_call>>
apkgVars == <<temp_dirs, dirs_created, read_call>>
writeVars == <<staging_dirs, write_call>>
scanVars == <<scan>>
registryVars == <<tools, wrappers, decorated, lookup>>

\* what the actions of one part leave alone
varsExceptNorm == <<dedupVars, exportVars, hash_seed, packageVars, mediaVars, decodeVars, nameVars, apkgVars, writeVars, scanVars, registryVars>>
varsExceptDedup == <<normVars, exportVars, hash_seed, packageVars, mediaVars, decodeVars, nameVars, apkgVars, writeVars, scanVars, registryVars>>
varsExceptExport == <<normVars, dedupVars, packageVars, mediaVars, decodeVars, nameVars, apkgVars, writeVars, scanVars, registryVars>>
varsExceptPackage == <<normVars, dedupVars, exportVars, mediaVars, decodeVars, nameVars, apkgVars, writeVars, scanVars, registryVars>>
varsExceptMedia == <<normVars, dedupVars, exportVars, hash_seed, packageVars, decodeVars, nameVars, apkgVars, writeVars, scanVars, registryVars>>
varsExceptDecode == <<normVars, dedupVars, exportVars, hash_seed, packageVars, mediaVars, nameVars, apkgVars, writeVars, scanVars, registryVars>>
varsExceptNames == <<normVars, dedupVars, exportVars, hash_seed, packageVars, mediaVars, decodeVars, apkgVars, writeVars, scanVars, registryVars>>
varsExceptApkg == <<normVars, dedupVars, exportVars, hash_seed, packageVars, mediaVars, decodeVars, nameVars, writeVars, scanVars, registryVars>>
varsExceptWrite == <<normVars, dedupVars, exportVars, hash_seed, packageVars, mediaVars, decodeVars, apkgVars, nameVars, scanVars, registryVars>>
varsExceptScan == <<normVars, dedupVars, exportVars, hash_seed, packageVars, mediaVars, decodeVars, apkgVars, writeVars, nameVars, registryVars>>
varsExceptRegistry == <<normVars, dedupVars, exportVars, hash_seed, packageVars, mediaVars, decodeVars, apkgVars, writeVars, scanVars, nameVars>>

NotCalled == [op |-> "none"]

(***************************************************************************)
(* Characters and the str methods the source uses.                         *)
(***************************************************************************)
UpperCase == <<"A","B","C","D","E","F","G","H","I","J","K","L","M",
               "N","O","P","Q","R","S","T","U","V","W","X","Y","Z">>

LowerCase == <<"a","b","c","d","e","f","g","h","i","j","k","l","m",
               "n","o","p","q","r","s","t","u","v","w","x","y","z">>

\* the characters str.strip() removes
Whitespace == {" ", "\t", "\n"}

\* the character class of re.split(r"[,;|]", ...)
Delimiters == {",", ";", "|"}

lowerChar(c) ==
    IF \E i \in 1..26 : UpperCase[i] = c
    THEN LowerCase[CHOOSE i \in 1..26 : UpperCase[i] = c]
    ELSE c

\* str.lower()
lower(s) == [i \in 1..Len(s) |-> lowerChar(s[i])]

\* str.strip(): drop the leading and the trailing whitespace
strip(s) ==
    LET keep == {i \in 1..Len(s) : s[i] \notin Whitespace}
    IN  IF keep = {} THEN <<>>
        ELSE LET lo == CHOOSE i \in keep : \A j \in keep : i <= j
                 hi == CHOOSE i \in keep : \A j \in keep : j <= i
             IN  SubSeq(s, lo, hi)

\* re.sub(r"<[^>]+>", "", s) from position i on: a match starts at a "<" that is
\* followed by at least one character other than ">" and, later, by a ">"; it
\* ends at the first such ">".  Matches are leftmost and do not overlap.
RECURSIVE subTagsFrom(_, _)
subTagsFrom(s, i) ==
    IF i > Len(s) THEN <<>>
    ELSE LET closers == {j \in (i + 2)..Len(s) : s[j] = ">"}
         IN  IF s[i] = "<" /\ i + 1 <= Len(s) /\ s[i + 1] /= ">" /\ closers /= {}
             THEN subTagsFrom(s, (CHOOSE j \in closers : \A k \in closers : j <= k) + 1)
             ELSE <<s[i]>> \o subTagsFrom(s, i + 1)

subTags(s) == subTagsFrom(s, 1)

\* a variant that also splits on whitespace
split_on_whitespace(s) ==
    LET RECURSIVE go(_, _)
        go(i, cur) ==
            IF i > Len(s) THEN <<cur>>
            ELSE IF s[i] \in Delimiters \cup Whitespace
                 THEN <<cur>> \o go(i + 1, <<>>)
                 ELSE go(i + 1, Append(cur, s[i]))
    IN  go(1, <<>>)

\* re.split(r"[,;|]", s): the pieces between delimiters, empty pieces included
RECURSIVE splitFrom(_, _, _)
splitFrom(s, i, cur) ==
    IF i > Len(s) THEN <<cur>>
    ELSE IF s[i] \in Delimiters
         THEN <<cur>> \o splitFrom(s, i + 1, <<>>)
         ELSE splitFrom(s, i + 1, Append(cur, s[i]))

split(s) == splitFrom(s, 1, <<>>)

Range(f) == {f[i] : i \in DOMAIN f}

(***************************************************************************)
(* normalize_and_split                                                     *)
(***************************************************************************)
IGNORED_WORDS == { <<"i","t","e","m">>,
                   <<"s","e","n","t","e","n","c","e">>,
                   <<"p","l","a","i","n">> }

DEFAULT_MAX_WORD_LENGTH == 20

\* a variant that keeps words of any length
normalize_and_split_any_length(t, max) ==
    LET words0 == split(strip(lower(subTags(t))))
        NonEmpty(w) == strip(w) /= <<>>
        words1a == SelectSeq(words0, NonEmpty)
        words1 == [i \in 1..Len(words1a) |-> strip(words1a[i])]
    IN  {w \in Range(words1) : w \notin IGNORED_WORDS}

normalize_and_split(t, max) ==
    LET t1 == subTags(t)
        words0 == split(strip(lower(t1)))
        NonEmpty(w) == strip(w) /= <<>>
        words1a == SelectSeq(words0, NonEmpty)
        words1 == [i \in 1..Len(words1a) |-> strip(words1a[i])]
        NotIgnored(w) == w \notin IGNORED_WORDS
        words2 == SelectSeq(words1, NotIgnored)
    IN  {w \in Range(words2) : Len(w) <= max}

(***************************************************************************)
(* The live collection and load_notes (core/tables.py).                    *)
(*                                                                         *)
(* A row of collection is [id, fields, decks]: a note, its field values    *)
(* (flds split on 0x1F) and the stored names of the decks that hold one of *)
(* its cards.  Stored deck names separate hierarchy levels by 0x1F.        *)
(***************************************************************************)
\* the control byte 0x1F
US == "0x1F"

\* str.replace(old, new): leftmost, non-overlapping occurrences
RECURSIVE replaceFrom(_, _, _, _)
replaceFrom(s, i, old, new) ==
    IF i > Len(s) THEN <<>>
    ELSE IF i + Len(old) - 1 <= Len(s) /\ SubSeq(s, i, i + Len(old) - 1) = old
         THEN new \o replaceFrom(s, i + Len(old), old, new)
         ELSE <<s[i]>> \o replaceFrom(s, i + 1, old, new)

replace(s, old, new) == replaceFrom(s, 1, old, new)

\* AnkiNote(id=row["id"], ..., fields=fields, ...)
AnkiNote(row) == [id |-> row.id, fields |-> row.fields]

\* load_notes(deck_name) against the rows of a collection; an empty deck_name
\* is falsy and selects every note
load_notes_from(rows, deck_name) ==
    LET search_name == replace(deck_name, <<":", ":">>, <<US>>)
        InDeck(row) == search_name \in row.decks
        selected == IF deck_name /= <<>> THEN SelectSeq(rows, InDeck) ELSE rows
    IN  [i \in 1..Len(selected) |-> AnkiNote(selected[i])]

load_notes(deck_name) == load_notes_from(collection, deck_name)

(***************************************************************************)
(* Exact field comparison: remove_duplicate_notes, analyze_deck_overlap    *)
(***************************************************************************)
\* an optional argument that was not passed
None == [given |-> FALSE]

Some(rows) == [given |-> TRUE, rows |-> rows]

\* fields[index] of a Python list, for index >= 0
Subscript(fields, index) ==
    IF index < Len(fields) THEN [raised |-> "none", value |-> fields[index + 1]]
    ELSE [raised |-> "IndexError"]

\* default_comparison, or the caller's custom_comparison ("exact" stands for
\* lambda a, b: a == b)
comparison_func(custom_comparison, new_field, existing_field) ==
    IF custom_comparison = "None"
    THEN lower(strip(new_field)) = lower(strip(existing_field))
    ELSE new_field = existing_field

\* comparison_func(new_note.fields[i], existing_note.fields[i]):
\* "True", "False", or "IndexError" when a subscript is out of range
compare_fields(new_note, existing_note, comparison_field_index, custom_comparison) ==
    LET a == Subscript(new_note.fields, comparison_field_index)
        b == Subscript(existing_note.fields, comparison_field_index)
    IN  IF a.raised /= "none" THEN a.raised
        ELSE IF b.raised /= "none" THEN b.raised
        ELSE IF comparison_func(custom_comparison, a.value, b.value) THEN "True"
        ELSE "False"

\* the inner lambda without its two length tests
notes_match_unguarded(new_note, existing_note, comparison_field_index, custom_comparison) ==
    compare_fields(new_note, existing_note, comparison_field_index, custom_comparison)

\* the inner lambda of remove_duplicate_notes and analyze_deck_overlap:
\* len(a.fields) > i and len(b.fields) > i and comparison_func(a.fields[i], b.fields[i])
notes_match(new_note, existing_note, comparison_field_index, custom_comparison) ==
    IF Len(new_note.fields) > comparison_field_index
       /\ Len(existing_note.fields) > comparison_field_index
    THEN compare_fields(new_note, existing_note, comparison_field_index, custom_comparison)
    ELSE "False"

\* existing_notes.any(lambda existing_note: ...): the rows are tried in order,
\* the first match ends the scan and an exception leaves it
any_match(note, others, comparison_field_index, custom_comparison) ==
    LET RECURSIVE go(_)
        go(i) ==
            IF i > Len(others) THEN "False"
            ELSE LET r == notes_match(note, others[i], comparison_field_index,
                                      custom_comparison)
                 IN  IF r = "False" THEN go(i + 1) ELSE r
    IN  go(1)

\* a variant of where that returns the rows kept last one first
where_any_last_first(notes, others, comparison_field_index, custom_comparison, wanted) ==
    LET RECURSIVE go(_, _)
        go(i, kept) ==
            IF i > Len(notes) THEN [raised |-> "none", rows |-> kept]
            ELSE LET r == any_match(notes[i], others, comparison_field_index,
                                    custom_comparison)
                 IN  IF r = "IndexError" THEN [raised |-> r, rows |-> <<>>]
                     ELSE go(i + 1, IF r = wanted THEN <<notes[i]>> \o kept ELSE kept)
    IN  go(1, <<>>)

\* notes.where(lambda note: others.any(...) == wanted), evaluated in row order:
\* [raised, rows]
where_any(notes, others, comparison_field_index, custom_comparison, wanted) ==
    LET RECURSIVE go(_, _)
        go(i, kept) ==
            IF i > Len(notes) THEN [raised |-> "none", rows |-> kept]
            ELSE LET r == any_match(notes[i], others, comparison_field_index,
                                    custom_comparison)
                 IN  IF r = "IndexError" THEN [raised |-> r, rows |-> <<>>]
                     ELSE go(i + 1, IF r = wanted THEN Append(kept, notes[i]) ELSE kept)
    IN  go(1, <<>>)

\* the rows of existing_collection that remove_duplicate_notes compares with
existing_notes_of(new_notes, existing_collection) ==
    LET loaded == IF existing_collection.given THEN existing_collection.rows
                  ELSE load_notes(<<>>)
        new_ids == {new_notes[i].id : i \in 1..Len(new_notes)}
        NotNew(note) == note.id \notin new_ids
    IN  SelectSeq(loaded, NotNew)

\* a variant that compares with the whole collection, the new deck included
remove_duplicate_notes_keeping_own_deck(new_deck_name, existing_collection, comparison_field_index, custom_comparison) ==
    LET new_notes == load_notes(new_deck_name)
        loaded == IF existing_collection.given THEN existing_collection.rows
                  ELSE load_notes(<<>>)
    IN  where_any(new_notes, loaded, comparison_field_index, custom_comparison, "False")

\* remove_duplicate_notes: [raised, rows]
remove_duplicate_notes(new_deck_name, existing_collection, comparison_field_index, custom_comparison) ==
    LET new_notes == load_notes(new_deck_name)
        existing_notes == existing_notes_of(new_notes, existing_collection)
    IN  where_any(new_notes, existing_notes, comparison_field_index,
                  custom_comparison, "False")

\* a percentage overlap_count / total * 100, kept as the exact fraction num/den
Percentage(overlap_count, total) ==
    IF total > 0 THEN [num |-> overlap_count * 100, den |-> total]
    ELSE [num |-> 0, den |-> 1]

\* a variant that counts the overlap on the deck2 side
overlap_statistics_from_deck2(deck1_notes, deck2_notes, comparison_field_index) ==
    LET deck2_in_deck1 == where_any(deck2_notes, deck1_notes,
                                    comparison_field_index, "None", "True")
        deck1_total == Len(deck1_notes)
        deck2_total == Len(deck2_notes)
        overlap_count == Len(deck2_in_deck1.rows)
    IN  [raised |-> deck2_in_deck1.raised,
         deck1_total_notes |-> deck1_total,
         deck2_total_notes |-> deck2_total,
         overlap_notes |-> overlap_count,
         deck1_unique_notes |-> deck1_total - overlap_count,
         deck2_unique_notes |-> deck2_total - overlap_count,
         overlap_percentage_deck1 |-> Percentage(overlap_count, deck1_total),
         overlap_percentage_deck2 |-> Percentage(overlap_count, deck2_total)]

\* the statistics analyze_deck_overlap builds from the two loaded decks
overlap_statistics(deck1_notes, deck2_notes, comparison_field_index) ==
    LET deck1_in_deck2 == where_any(deck1_notes, deck2_notes,
                                    comparison_field_index, "None", "True")
        deck2_in_deck1 == where_any(deck2_notes, deck1_notes,
                                    comparison_field_index, "None", "True")
        deck1_total == Len(deck1_notes)
        deck2_total == Len(deck2_notes)
        overlap_count == Len(deck1_in_deck2.rows)
    IN  IF deck1_in_deck2.raised /= "none" THEN [raised |-> deck1_in_deck2.raised]
        ELSE IF deck2_in_deck1.raised /= "none" THEN [raised |-> deck2_in_deck1.raised]
        ELSE [raised |-> "none",
              deck1_total_notes |-> deck1_total,
              deck2_total_notes |-> deck2_total,
              overlap_notes |-> overlap_count,
              deck1_unique_notes |-> deck1_total - overlap_count,
              deck2_unique_notes |-> deck2_total - overlap_count,
              overlap_percentage_deck1 |-> Percentage(overlap_count, deck1_total),
              overlap_percentage_deck2 |-> Percentage(overlap_count, deck2_total)]

\* analyze_deck_overlap
analyze_deck_overlap(deck1_name, deck2_name, comparison_field_index) ==
    overlap_statistics(load_notes(deck1_name), load_notes(deck2_name),
                       comparison_field_index)

(***************************************************************************)
(* Word-overlap matching: deduplicate_external_deck                        *)
(***************************************************************************)
\* a variant that reads only the first field of each collection note
build_collection_word_set_first_field(notes) ==
    UNION {normalize_and_split(notes[i].fields[1], DEFAULT_MAX_WORD_LENGTH) :
              i \in {k \in 1..Len(notes) : notes[k].fields /= <<>>}}

\* build_collection_word_set
build_collection_word_set(notes) ==
    UNION {UNION {normalize_and_split(notes[i].fields[j], DEFAULT_MAX_WORD_LENGTH) :
                      j \in 1..Len(notes[i].fields)} :
              i \in 1..Len(notes)}

\* notes_match_auto
notes_match_auto(external_note, collection_word_set) ==
    \E j \in 1..Len(external_note.fields) :
        normalize_and_split(external_note.fields[j], DEFAULT_MAX_WORD_LENGTH)
            \cap collection_word_set /= {}

\* load_notes_from_apkg: the archive's note rows, ORDER BY n.id
load_notes_from_apkg == [i \in 1..Len(apkg_notes) |-> AnkiNote(apkg_notes[i])]

\* a variant that returns the matching notes instead of the others
deduplicate_external_deck_matching(existing_collection) ==
    LET existing == IF existing_collection.given THEN existing_collection.rows
                    ELSE load_notes(<<>>)
        collection_word_set == build_collection_word_set(existing)
        IsMatch(external_note) == notes_match_auto(external_note, collection_word_set)
    IN  [raised |-> "none", rows |-> SelectSeq(load_notes_from_apkg, IsMatch)]

\* deduplicate_external_deck: [raised, rows]
deduplicate_external_deck(existing_collection) ==
    LET external_notes == load_notes_from_apkg
        existing == IF existing_collection.given THEN existing_collection.rows
                    ELSE load_notes(<<>>)
        collection_word_set == build_collection_word_set(existing)
        IsUnique(external_note) == ~notes_match_auto(external_note, collection_word_set)
    IN  [raised |-> "none", rows |-> SelectSeq(external_notes, IsUnique)]

\* the state of the parts a specification does not exercise
NormIdle ==
    /\ text = <<>>
    /\ max_word_length = DEFAULT_MAX_WORD_LENGTH
    /\ words = {}
    /\ norm_pc = "start"

DedupIdle ==
    /\ collection = <<>>
    /\ apkg_notes = <<>>
    /\ call = NotCalled

\* an archive: the models and decks of its col row (JSON objects, kept as sets of
\* entries with their key in id), its notes rows and its cards rows
EmptyArchive == [models |-> {}, decks |-> {}, notes |-> <<>>, cards |-> <<>>]

NothingLoaded == [loaded_by |-> "none", notes |-> <<>>, cards |-> <<>>, models |-> {}]

ExportIdle ==
    /\ archive = EmptyArchive
    /\ export_pc = "start"
    /\ original = NothingLoaded
    /\ export_args = NotCalled
    /\ output = EmptyArchive
    /\ reimported = NothingLoaded

\* str hashing keyed as in a run started with PYTHONHASHSEED=0
HashIdle == hash_seed = 0

PackageIdle == packages = [previous |-> NotCalled, last |-> NotCalled]

MediaIdle ==
    /\ media_fields = <<>>
    /\ media_found = {}
    /\ media_pc = "start"

DecodeIdle ==
    /\ template_config = <<>>
    /\ decoded = <<>>
    /\ decode_pc = "start"

NamesIdle ==
    /\ decks = <<>>
    /\ name_call = NotCalled

ApkgIdle ==
    /\ temp_dirs = {}
    /\ dirs_created = 0
    /\ read_call = NotCalled

WriteIdle ==
    /\ staging_dirs = {}
    /\ write_call = NotCalled

ScanIdle ==
    scan = NotCalled

RegistryIdle ==
    /\ tools = <<>>
    /\ wrappers = 0
    /\ decorated = NotCalled
    /\ lookup = NotCalled

IdleExceptNorm == DedupIdle /\ ExportIdle /\ HashIdle /\ PackageIdle /\ MediaIdle /\ DecodeIdle /\ NamesIdle /\ ApkgIdle /\ WriteIdle /\ ScanIdle /\ RegistryIdle
IdleExceptDedup == NormIdle /\ ExportIdle /\ HashIdle /\ PackageIdle /\ MediaIdle /\ DecodeIdle /\ NamesIdle /\ ApkgIdle /\ WriteIdle /\ ScanIdle /\ RegistryIdle
IdleExceptExport == NormIdle /\ DedupIdle /\ PackageIdle /\ MediaIdle /\ DecodeIdle /\ NamesIdle /\ ApkgIdle /\ WriteIdle /\ ScanIdle /\ RegistryIdle
IdleExceptPackage == NormIdle /\ DedupIdle /\ ExportIdle /\ MediaIdle /\ DecodeIdle /\ NamesIdle /\ ApkgIdle /\ WriteIdle /\ ScanIdle /\ RegistryIdle
IdleExceptMedia == NormIdle /\ DedupIdle /\ ExportIdle /\ HashIdle /\ PackageIdle /\ DecodeIdle /\ NamesIdle /\ ApkgIdle /\ WriteIdle /\ ScanIdle /\ RegistryIdle
IdleExceptDecode == NormIdle /\ DedupIdle /\ ExportIdle /\ HashIdle /\ PackageIdle /\ MediaIdle /\ NamesIdle /\ ApkgIdle /\ WriteIdle /\ ScanIdle /\ RegistryIdle
IdleExceptNames == NormIdle /\ DedupIdle /\ ExportIdle /\ HashIdle /\ PackageIdle /\ MediaIdle /\ DecodeIdle /\ ApkgIdle /\ WriteIdle /\ ScanIdle /\ RegistryIdle
IdleExceptApkg == NormIdle /\ DedupIdle /\ ExportIdle /\ HashIdle /\ PackageIdle /\ MediaIdle /\ DecodeIdle /\ NamesIdle /\ WriteIdle /\ ScanIdle /\ RegistryIdle
IdleExceptWrite == NormIdle /\ DedupIdle /\ ExportIdle /\ HashIdle /\ PackageIdle /\ MediaIdle /\ DecodeIdle /\ ApkgIdle /\ NamesIdle /\ ScanIdle /\ RegistryIdle
IdleExceptScan == NormIdle /\ DedupIdle /\ ExportIdle /\ HashIdle /\ PackageIdle /\ MediaIdle /\ DecodeIdle /\ ApkgIdle /\ WriteIdle /\ NamesIdle /\ RegistryIdle
IdleExceptRegistry == NormIdle /\ DedupIdle /\ ExportIdle /\ HashIdle /\ PackageIdle /\ MediaIdle /\ DecodeIdle /\ ApkgIdle /\ WriteIdle /\ ScanIdle /\ NamesIdle

(***************************************************************************)
(* The inputs of the deduplication calls.                                  *)
(***************************************************************************)
MaxNotes == 3        \* notes of the live collection, exact comparison
MaxRefNotes == 2     \* notes of the live collection, word-overlap matching
MaxExternal == 2     \* notes of the external .apkg file
MaxIndex == 1        \* largest comparison_field_index passed

\* deck names as the caller writes them, and as the collection stores them
DeckNames == { <<"A">>, <<"A", ":", ":", "B">> }

StoredDeckNames == { <<"A">>, <<"A", US, "B">> }

\* the decks that hold the cards of one note
DeckSets == SUBSET StoredDeckNames \ {{}}

\* field lists for the exact comparison: "a" and " A " agree after strip and
\* lower, and only the third list has a field at index 1
ExactFields == { << <<"a">> >>,
                 << <<" ", "A", " ">> >>,
                 << <<"b">>, <<"a">> >> }

\* field lists for the word-overlap matching: "a,b" / "<i>B</i>", "c d" /
\* "item" / "c d | item"
AutoFields == { << <<"a", ",", "b">> >>,
                << <<"<", "i", ">", "B", "<", "/", "i", ">">>, <<"c", " ", "d">> >>,
                << <<"i", "t", "e", "m">> >>,
                << <<"c", " ", "d", " ", "|", " ", "i", "t", "e", "m">> >> }

\* the tables of at most n rows whose ids are 1, 2, ... in row order
RECURSIVE TablesOf(_, _, _)
TablesOf(n, fieldLists, deckSets) ==
    IF n = 0 THEN {<<>>}
    ELSE LET shorter == TablesOf(n - 1, fieldLists, deckSets)
         IN  shorter \cup
             {Append(t, [id |-> Len(t) + 1, fields |-> f, decks |-> d]) :
                 t \in {u \in shorter : Len(u) = n - 1}, f \in fieldLists, d \in deckSets}

ExactInit ==
    /\ collection \in TablesOf(MaxNotes, ExactFields, DeckSets)
    /\ apkg_notes = <<>>
    /\ call = NotCalled

AutoInit ==
    /\ collection \in TablesOf(MaxRefNotes, AutoFields, {{<<"A">>}})
    /\ apkg_notes \in TablesOf(MaxExternal, AutoFields, {{}})
    /\ call = NotCalled

\* what a caller passes as existing_collection: nothing, or the pre-loaded deck A
ExistingArgs == {None, Some(load_notes(<<"A">>))}

CustomComparisons == {"None", "exact"}

RemoveDuplicateNotes ==
    /\ call = NotCalled
    /\ \E new_deck_name \in DeckNames, existing_collection \in ExistingArgs,
          comparison_field_index \in 0..MaxIndex,
          custom_comparison \in CustomComparisons :
          call' = [op |-> "remove_duplicate_notes",
                   new_deck_name |-> new_deck_name,
                   existing_collection |-> existing_collection,
                   comparison_field_index |-> comparison_field_index,
                   custom_comparison |-> custom_comparison,
                   result |-> remove_duplicate_notes(new_deck_name, existing_collection,
                                  comparison_field_index, custom_comparison)]
    /\ UNCHANGED <<collection, apkg_notes>>
    /\ UNCHANGED varsExceptDedup

AnalyzeDeckOverlap ==
    /\ call = NotCalled
    /\ \E deck1_name \in DeckNames, deck2_name \in DeckNames,
          comparison_field_index \in 0..MaxIndex :
          call' = [op |-> "analyze_deck_overlap",
                   deck1_name |-> deck1_name,
                   deck2_name |-> deck2_name,
                   comparison_field_index |-> comparison_field_index,
                   result |-> analyze_deck_overlap(deck1_name, deck2_name,
                                                   comparison_field_index)]
    /\ UNCHANGED <<collection, apkg_notes>>
    /\ UNCHANGED varsExceptDedup

DeduplicateExternalDeck ==
    /\ call = NotCalled
    /\ \E existing_collection \in ExistingArgs :
          call' = [op |-> "deduplicate_external_deck",
                   existing_collection |-> existing_collection,
                   result |-> deduplicate_external_deck(existing_collection)]
    /\ UNCHANGED <<collection, apkg_notes>>
    /\ UNCHANGED varsExceptDedup

InitDedup == (ExactInit \/ AutoInit) /\ IdleExceptDedup

NextDedup == RemoveDuplicateNotes \/ AnalyzeDeckOverlap \/ DeduplicateExternalDeck

SpecDedup == InitDedup /\ [][NextDedup]_vars

(***************************************************************************)
(* Reading an archive (core/import_apkg.py)                                *)
(***************************************************************************)
\* str.split(sep) for a one-character separator: empty pieces included
splitOn(s, sep) ==
    LET RECURSIVE go(_, _)
        go(i, cur) ==
            IF i > Len(s) THEN <<cur>>
            ELSE IF s[i] = sep THEN <<cur>> \o go(i + 1, <<>>)
            ELSE go(i + 1, Append(cur, s[i]))
    IN  go(1, <<>>)

\* str.split(): the runs of non-whitespace characters
splitWhitespace(s) ==
    LET RECURSIVE go(_, _)
        go(i, cur) ==
            IF i > Len(s) THEN (IF cur = <<>> THEN <<>> ELSE <<cur>>)
            ELSE IF s[i] \in Whitespace
                 THEN (IF cur = <<>> THEN <<>> ELSE <<cur>>) \o go(i + 1, <<>>)
                 ELSE go(i + 1, Append(cur, s[i]))
    IN  go(1, <<>>)

\* sep.join(parts)
RECURSIVE join(_, _)
join(parts, sep) ==
    IF parts = <<>> THEN <<>>
    ELSE IF Len(parts) = 1 THEN parts[1]
    ELSE parts[1] \o sep \o join(Tail(parts), sep)

\* row["tags"].split() if row["tags"] else []
tags_of(row) == IF row.tags /= <<>> THEN splitWhitespace(row.tags) ELSE <<>>

\* load_models_from_db: the AnkiModel objects by id
load_models_from_db(a) ==
    {[id |-> model_data.id,
      name |-> model_data.name,
      fields |-> model_data.flds,
      templates |-> model_data.tmpls,
      css |-> model_data.css] : model_data \in a.models}

\* the rows of a table in ascending id order
RECURSIVE OrderById(_)
OrderById(rows) ==
    IF rows = {} THEN <<>>
    ELSE LET first == CHOOSE r \in rows : \A q \in rows : r.id <= q.id
         IN  <<first>> \o OrderById(rows \ {first})

\* load_notes_from_apkg on an archive: AnkiNote objects, ORDER BY n.id
load_notes_from_archive(a) ==
    LET rows == OrderById(Range(a.notes))
    IN  [i \in 1..Len(rows) |->
            [id |-> rows[i].id,
             mid |-> rows[i].mid,
             fields |-> splitOn(rows[i].flds, US),
             tags |-> tags_of(rows[i])]]

\* load_cards_from_apkg on an archive: the cards joined with their notes,
\* ORDER BY c.id, each with its AnkiModel
load_cards_from_archive(a) ==
    LET models == load_models_from_db(a)
        joined == {c \in Range(a.cards) : \E n \in Range(a.notes) : n.id = c.nid}
        rows == OrderById(joined)
        NoteOf(c) == CHOOSE n \in Range(a.notes) : n.id = c.nid
        DeckName(did) ==
            IF \E d \in a.decks : d.id = did
            THEN (CHOOSE d \in a.decks : d.id = did).name
            ELSE <<"U", "n", "k", "n", "o", "w", "n", " ", "D", "e", "c", "k">>
    IN  [i \in 1..Len(rows) |->
            [id |-> rows[i].id,
             fields |-> splitOn(NoteOf(rows[i]).flds, US),
             tags |-> tags_of(NoteOf(rows[i])),
             card_type |-> rows[i].ord,
             deck_name |-> DeckName(rows[i].did),
             model |-> CHOOSE m \in models : m.id = NoteOf(rows[i]).mid,
             note_id |-> rows[i].nid]]

\* a variant of load_cards that returns the deck names as they are stored
load_cards_with_stored_names(db, deck_name) ==
    LET search_name == replace(deck_name, <<":", ":">>, <<US>>)
        NoteOf(c) == CHOOSE n \in Range(db.notes) : n.id = c.nid
        DeckOf(c) == CHOOSE d \in db.decks : d.id = c.did
        Joined(c) ==
            /\ \E n \in Range(db.notes) : n.id = c.nid
            /\ \E d \in db.decks : d.id = c.did
            /\ deck_name /= <<>> => DeckOf(c).name = search_name
        rows == SelectSeq(db.cards, Joined)
    IN  [i \in 1..Len(rows) |->
            [id |-> rows[i].id,
             fields |-> splitOn(NoteOf(rows[i]).flds, US),
             tags |-> tags_of(NoteOf(rows[i])),
             card_type |-> rows[i].ord,
             deck_name |-> DeckOf(rows[i]).name,
             model |-> None,
             note_id |-> rows[i].nid]]

\* tables.load_cards(deck_name) on the live collection: the cards joined with
\* their notes and decks, each without a model
load_cards(db, deck_name) ==
    LET search_name == replace(deck_name, <<":", ":">>, <<US>>)
        NoteOf(c) == CHOOSE n \in Range(db.notes) : n.id = c.nid
        DeckOf(c) == CHOOSE d \in db.decks : d.id = c.did
        Joined(c) ==
            /\ \E n \in Range(db.notes) : n.id = c.nid
            /\ \E d \in db.decks : d.id = c.did
            /\ deck_name /= <<>> => DeckOf(c).name = search_name
        rows == SelectSeq(db.cards, Joined)
    IN  [i \in 1..Len(rows) |->
            [id |-> rows[i].id,
             fields |-> splitOn(NoteOf(rows[i]).flds, US),
             tags |-> tags_of(NoteOf(rows[i])),
             card_type |-> rows[i].ord,
             deck_name |-> replace(DeckOf(rows[i]).name, <<US>>, <<":", ":">>),
             model |-> None,
             note_id |-> rows[i].nid]]

\* everything the round-trip test loads from one archive
load_archive(a) ==
    [loaded_by |-> "load_cards_from_apkg",
     notes |-> load_notes_from_archive(a),
     cards |-> load_cards_from_archive(a),
     models |-> load_models_from_db(a)]

(***************************************************************************)
(* Writing an archive (core/export.py, through genanki)                    *)
(***************************************************************************)
BASIC_MODEL_ID == 1607392319

VOCAB_MODEL_ID == 1607392320

\* a genanki.Model: req is the card-generation rule genanki derives from the
\* question formats (template ordinal, "all" / "any", field ordinals)
BASIC_MODEL ==
    [model_id |-> BASIC_MODEL_ID,
     name |-> "TidyAnki Basic Model",
     fields |-> <<"Front", "Back">>,
     templates |-> <<[name |-> "Card 1", qfmt |-> "{{Front}}",
                      afmt |-> "{{FrontSide}}<hr id=\"answer\">{{Back}}"]>>,
     css |-> "",
     req |-> <<[ord |-> 0, mode |-> "all", fields |-> {0}]>>]

VOCAB_MODEL ==
    [model_id |-> VOCAB_MODEL_ID,
     name |-> "TidyAnki Vocabulary Model",
     fields |-> <<"Term", "Reading", "Meaning", "Example", "ExampleTranslation",
                  "TermAudio", "MeaningAudio">>,
     templates |->
        <<[name |-> "Term to Meaning",
           qfmt |-> "{{Term}}<br>{{Reading}}<br>{{TermAudio}}",
           afmt |-> "{{FrontSide}}<hr id=\"answer\">{{Meaning}}<br>{{Example}}<br>{{ExampleTranslation}}<br>{{MeaningAudio}}"],
          [name |-> "Meaning to Term",
           qfmt |-> "{{Meaning}}<br>{{MeaningAudio}}",
           afmt |-> "{{FrontSide}}<hr id=\"answer\">{{Term}}<br>{{Reading}}<br>{{Example}}<br>{{ExampleTranslation}}<br>{{TermAudio}}"]>>,
     css |-> "",
     req |-> <<[ord |-> 0, mode |-> "any", fields |-> {0, 1, 5}],
               [ord |-> 1, mode |-> "any", fields |-> {2, 6}]>>]

\* the models entry genanki writes for a model: fields and templates get their
\* position as ord
model_to_json(model) ==
    [id |-> model.model_id,
     name |-> model.name,
     flds |-> [i \in 1..Len(model.fields) |-> [name |-> model.fields[i], ord |-> i - 1]],
     tmpls |-> [i \in 1..Len(model.templates) |->
                   [name |-> model.templates[i].name,
                    qfmt |-> model.templates[i].qfmt,
                    afmt |-> model.templates[i].afmt,
                    ord |-> i - 1]],
     css |-> model.css]

\* a variant of the loop body that pads but never cuts
note_fields_padded_only(card_fields, model) ==
    LET n == Len(model.fields)
    IN  [i \in 1..(IF Len(card_fields) < n THEN n ELSE Len(card_fields)) |->
            IF i <= Len(card_fields) THEN card_fields[i] ELSE <<>>]

\* the loop body of export_cards_to_deck: the field values of the genanki note,
\* padded with "" and cut to the model's field count
note_fields(card_fields, model) ==
    LET n == Len(model.fields)
        padded == [i \in 1..(IF Len(card_fields) < n THEN n ELSE Len(card_fields)) |->
                      IF i <= Len(card_fields) THEN card_fields[i] ELSE <<>>]
    IN  SubSeq(padded, 1, n)

\* the template ordinals for which genanki generates a card of a note
card_ords(fields, model) ==
    LET Satisfied(r) ==
            IF r.mode = "all" THEN \A f \in r.fields : fields[f + 1] /= <<>>
            ELSE \E f \in r.fields : fields[f + 1] /= <<>>
        generating == SelectSeq(model.req, Satisfied)
    IN  [i \in 1..Len(generating) |-> generating[i].ord]

\* the first id genanki's counter hands out
FIRST_ID == 1000

\* the code points of the characters of the deck names used here
Code ==
    ("A" :> 65) @@ ("B" :> 66) @@ (":" :> 58) @@ ("O" :> 79) @@ ("u" :> 117) @@ ("t" :> 116)

\* hash(s) of a str: a keyed hash, 0 for the empty string, a signed value
\* otherwise; the key is drawn when the process starts.  The keyed
\* function of the interpreter is stood for by a polynomial of HASH_BITS bits
\* over the code points.
HASH_BITS == 16

str_hash(seed, s) ==
    LET RECURSIVE mix(_, _)
        mix(h, i) ==
            IF i > Len(s) THEN h
            ELSE mix((h * 31 + Code[s[i]] + 7 * seed) % (2 ^ HASH_BITS), i + 1)
        unsigned == mix(seed, 1)
    IN  IF s = <<>> THEN 0
        ELSE IF unsigned >= 2 ^ (HASH_BITS - 1) THEN unsigned - 2 ^ HASH_BITS
        ELSE unsigned

abs(x) == IF x < 0 THEN -x ELSE x

\* the modulus of the deck id: 10**10 against a hash of 64 bits in the source,
\* 10**4 against the hash of HASH_BITS bits here
DECK_ID_MODULUS == 10 ^ 4

\* deck_id = abs(hash(deck_name)) % (10**10)
deck_id_of(seed, deck_name) == abs(str_hash(seed, deck_name)) % DECK_ID_MODULUS

DefaultDeckName == <<"D", "e", "f", "a", "u", "l", "t">>

\* an explicit model argument
Given(model) == [given |-> TRUE, model |-> model]

\* genanki.Package(deck).write_to_file: the models of the deck's notes, one
\* notes row per genanki note and one cards row per generated card, with ids
\* taken from one ascending counter
write_package(notes, model, deck_id, deck_name) ==
    LET RECURSIVE go(_, _, _, _)
        go(i, next_id, note_rows, card_rows) ==
            IF i > Len(notes) THEN [notes |-> note_rows, cards |-> card_rows]
            ELSE LET ords == card_ords(notes[i].fields, model)
                     note_row == [id |-> next_id,
                                  mid |-> model.model_id,
                                  flds |-> join(notes[i].fields, <<US>>),
                                  tags |-> <<" ">> \o join(notes[i].tags, <<" ">>) \o <<" ">>]
                     new_cards == [k \in 1..Len(ords) |->
                                      [id |-> next_id + k, nid |-> next_id,
                                       ord |-> ords[k], did |-> deck_id]]
                 IN  go(i + 1, next_id + 1 + Len(ords),
                        Append(note_rows, note_row), card_rows \o new_cards)
        rows == go(1, FIRST_ID, <<>>, <<>>)
    IN  [models |-> IF notes = <<>> THEN {} ELSE {model_to_json(model)},
         decks |-> {[id |-> 1, name |-> DefaultDeckName], [id |-> deck_id, name |-> deck_name]},
         notes |-> rows.notes,
         cards |-> rows.cards]

\* export_cards_to_deck: the archive written
export_cards_to_deck(cards, deck_name, model, seed) ==
    LET used == IF model = None THEN BASIC_MODEL ELSE model.model
        deck_id == deck_id_of(seed, deck_name)
        notes == [i \in 1..Len(cards) |->
                     [fields |-> note_fields(cards[i].fields, used),
                      tags |-> cards[i].tags]]
    IN  write_package(notes, used, deck_id, deck_name)

(***************************************************************************)
(* The archives read, and the import / export run of the round-trip test: *)
(* load, export the first cards, load the output again.                    *)
(***************************************************************************)
MaxArchiveNotes == 2

\* a note type of a foreign deck: three fields, two templates, its own CSS
SEINFELD_JSON ==
    [id |-> 1342697561,
     name |-> "Seinfeld",
     flds |-> <<[name |-> "Word", ord |-> 0], [name |-> "Meaning", ord |-> 1],
                [name |-> "Audio", ord |-> 2]>>,
     tmpls |-> <<[name |-> "Forward", qfmt |-> "{{Word}}", afmt |-> "{{Meaning}}", ord |-> 0],
                 [name |-> "Reverse", qfmt |-> "{{Meaning}}", afmt |-> "{{Word}}", ord |-> 1]>>,
     css |-> ".card { font-size: 20px; }"]

\* the models of an archive: the foreign note type, the basic model of an
\* archive that export_cards_to_deck wrote earlier, or both
ModelSets == { {SEINFELD_JSON}, {model_to_json(BASIC_MODEL)},
               {SEINFELD_JSON, model_to_json(BASIC_MODEL)} }

\* the field values a note of the model may hold
FieldChoices(model_data) ==
    IF Len(model_data.flds) = 3
    THEN { << <<"x">>, <<"y">>, <<"z">> >>, << <<>>, <<"y">>, <<>> >> }
    ELSE { << <<"x">>, <<"y">> >>, << <<>>, <<"y">> >> }

\* the stored tags of a note: none, or " t u "
TagChoices == { <<>>, <<" ", "t", " ", "u", " ">> }

\* the templates a note has cards for
OrdChoices(model_data) ==
    IF Len(model_data.tmpls) = 2 THEN { <<0>>, <<0, 1>> } ELSE { <<0>> }

\* the archives with at most n notes over the given models; note i has id i
\* and its cards have the ids 10 * i + ord
RECURSIVE ArchivesOf(_, _)
ArchivesOf(n, models) ==
    IF n = 0
    THEN {[models |-> models, decks |-> {[id |-> 1, name |-> DefaultDeckName]},
           notes |-> <<>>, cards |-> <<>>]}
    ELSE LET shorter == ArchivesOf(n - 1, models)
             WithNote(a, m) ==
                 {[a EXCEPT
                     !.notes = Append(@, [id |-> n, mid |-> m.id,
                                          flds |-> join(f, <<US>>), tags |-> t]),
                     !.cards = @ \o [k \in 1..Len(o) |->
                                        [id |-> 10 * n + o[k], nid |-> n,
                                         ord |-> o[k], did |-> 1]]] :
                     f \in FieldChoices(m), t \in TagChoices, o \in OrdChoices(m)}
         IN  shorter \cup
             UNION {WithNote(a, m) :
                       a \in {u \in shorter : Len(u.notes) = n - 1}, m \in models}

Archives == UNION {ArchivesOf(MaxArchiveNotes, models) : models \in ModelSets}

ModelArgs == {None, Given(VOCAB_MODEL)}

\* the keys str hashing may have in a run
HashSeeds == {0, 1}

\* the deck_name passed to export_cards_to_deck
OutputDeckName == <<"O", "u", "t">>

\* the deck_name filters passed to load_cards: none, or "Default"
DeckFilters == {<<>>, DefaultDeckName}

ExportInit ==
    /\ archive \in Archives
    /\ hash_seed \in HashSeeds
    /\ export_pc = "start"
    /\ original = NothingLoaded
    /\ export_args = NotCalled
    /\ output = EmptyArchive
    /\ reimported = NothingLoaded

\* load_notes_from_apkg(apkg_path) and load_cards_from_apkg(apkg_path)
LoadArchive ==
    /\ export_pc = "start"
    /\ original' = load_archive(archive)
    /\ export_pc' = "loaded"
    /\ UNCHANGED <<archive, export_args, output, reimported>>
    /\ UNCHANGED hash_seed
    /\ UNCHANGED varsExceptExport

\* load_cards(deck_name) on the live collection
LoadCards ==
    /\ export_pc = "start"
    /\ \E deck_name \in DeckFilters :
          original' = [loaded_by |-> "load_cards", notes |-> <<>>,
                       cards |-> load_cards(archive, deck_name), models |-> {}]
    /\ export_pc' = "loaded"
    /\ UNCHANGED <<archive, export_args, output, reimported>>
    /\ UNCHANGED hash_seed
    /\ UNCHANGED varsExceptExport

\* export_cards_to_deck(original_cards.take(n), deck_name, output_path, model):
\* no statement of it raises for a table of cards
ExportCardsToDeck ==
    /\ export_pc = "loaded"
    /\ \E n \in 0..Len(original.cards), model \in ModelArgs :
          /\ export_args' = [op |-> "export_cards_to_deck", taken |-> n,
                             deck_name |-> OutputDeckName, model |-> model,
                             raised |-> "none"]
          /\ output' = export_cards_to_deck(SubSeq(original.cards, 1, n),
                                            OutputDeckName, model, hash_seed)
    /\ export_pc' = "exported"
    /\ UNCHANGED <<archive, original, reimported>>
    /\ UNCHANGED hash_seed
    /\ UNCHANGED varsExceptExport

\* load_notes_from_apkg(output_path) and load_cards_from_apkg(output_path)
ReimportOutput ==
    /\ export_pc = "exported"
    /\ reimported' = load_archive(output)
    /\ export_pc' = "reimported"
    /\ UNCHANGED <<archive, original, export_args, output>>
    /\ UNCHANGED hash_seed
    /\ UNCHANGED varsExceptExport

InitExport == ExportInit /\ IdleExceptExport

NextExport == LoadArchive \/ LoadCards \/ ExportCardsToDeck \/ ReimportOutput

SpecExport == InitExport /\ [][NextExport]_vars

(***************************************************************************)
(* The inputs of normalize_and_split: every text made of at most MaxPieces *)
(* pieces, and two values of max_word_length.                              *)
(***************************************************************************)
MaxPieces == 3

LongWord == [i \in 1..(DEFAULT_MAX_WORD_LENGTH + 1) |-> "x"]

Pieces == { <<"a">>, <<"B">>, <<" ">>, <<",">>, <<";">>, <<"|">>, <<"<">>, <<">">>,
            <<"i","t","e","m">>, <<"P","l","a","i","n">>,
            <<"s","e","n","t","e","n","c","e">>, LongWord }

ShortMaxWordLength == 2

MaxWordLengths == {ShortMaxWordLength, DEFAULT_MAX_WORD_LENGTH}

RECURSIVE TextsOf(_)
TextsOf(n) ==
    IF n = 0 THEN {<<>>}
    ELSE LET shorter == TextsOf(n - 1)
         IN  shorter \cup {t \o p : t \in shorter, p \in Pieces}

Texts == TextsOf(MaxPieces)

NormInit ==
    /\ text \in Texts
    /\ max_word_length \in MaxWordLengths
    /\ words = {}
    /\ norm_pc = "start"

\* the call normalize_and_split(text, max_word_length)
NormalizeAndSplit ==
    /\ norm_pc = "start"
    /\ words' = normalize_and_split(text, max_word_length)
    /\ norm_pc' = "done"
    /\ UNCHANGED <<text, max_word_length>>
    /\ UNCHANGED varsExceptNorm

InitNorm == NormInit /\ IdleExceptNorm

NextNorm == NormalizeAndSplit

SpecNorm == InitNorm /\ [][NextNorm]_vars

(***************************************************************************)
(* Claims about the import / export round trip                             *)
(***************************************************************************)
\* the names and ordinals of a model's fields, and its templates' texts
FieldLayout(m) == [i \in 1..Len(m.fields) |-> <<m.fields[i].name, m.fields[i].ord>>]

TemplateTexts(m) ==
    [i \in 1..Len(m.templates) |->
        <<m.templates[i].name, m.templates[i].qfmt, m.templates[i].afmt>>]

\* C1: loading an archive, exporting all its cards with export_cards_to_deck and
\* loading the output yields the same note, card and model counts, for every
\* original model id a model with the same name, field names and ordinals,
\* template texts and CSS, and for every note the same field values and tag set.
C1_RoundTrip ==
    (export_pc = "reimported" /\ original.loaded_by = "load_cards_from_apkg"
        /\ export_args.model = None /\ export_args.taken = Len(original.cards))
    => /\ Len(reimported.notes) = Len(original.notes)
       /\ Len(reimported.cards) = Len(original.cards)
       /\ Cardinality(reimported.models) = Cardinality(original.models)
       /\ \A m \in original.models :
             \E r \in reimported.models :
                /\ r.id = m.id
                /\ r.name = m.name
                /\ FieldLayout(r) = FieldLayout(m)
                /\ TemplateTexts(r) = TemplateTexts(m)
                /\ r.css = m.css
       /\ \A i \in 1..Len(original.notes) :
             /\ i <= Len(reimported.notes)
             /\ reimported.notes[i].fields = original.notes[i].fields
             /\ Range(reimported.notes[i].tags) = Range(original.notes[i].tags)

\* C2: exporting the first N loaded cards without a model argument and loading
\* the output yields exactly N cards, each with a note type whose name is one of
\* the original archive's model names.
C2_Filtering ==
    (export_pc = "reimported" /\ original.loaded_by = "load_cards_from_apkg"
        /\ export_args.model = None)
    => /\ Len(reimported.cards) = export_args.taken
       /\ \A i \in 1..Len(reimported.cards) :
             reimported.cards[i].model.name \in {m.name : m \in original.models}

(***************************************************************************)
(* Claims about normalize_and_split                                        *)
(***************************************************************************)
\* the delimiter-free stretches of u, trimmed: stretch a..b starts after a
\* delimiter (or at the start) and ends before the next one (or at the end)
TrimmedPieces(u) ==
    LET starts == {1} \cup {i + 1 : i \in {k \in 1..Len(u) : u[k] \in Delimiters}}
        EndOf(a) == CHOOSE b \in (a - 1)..Len(u) :
                        /\ b = Len(u) \/ u[b + 1] \in Delimiters
                        /\ \A k \in a..b : u[k] \notin Delimiters
    IN  {strip(SubSeq(u, a, EndOf(a))) : a \in starts}

ExpectedWords(t, max) ==
    {w \in TrimmedPieces(lower(subTags(t))) :
        w /= <<>> /\ w \notin IGNORED_WORDS /\ Len(w) <= max}

AppleText == <<"a","p","p","l","e",","," ","b","a","n","a","n","a",";"," ",
               "c","h","e","r","r","y","|","g","r","a","p","e">>

AppleWords == { <<"a","p","p","l","e">>, <<"b","a","n","a","n","a">>,
                <<"c","h","e","r","r","y">>, <<"g","r","a","p","e">> }

AppleResult == normalize_and_split(AppleText, DEFAULT_MAX_WORD_LENGTH)

\* C5: normalize_and_split returns exactly the trimmed, non-empty pieces between
\* the delimiters , ; | of the lower-cased text without its HTML tags, less the
\* stop-list words and the pieces longer than max_word_length; no stop-list word
\* is returned and "apple, banana; cherry|grape" gives the four fruit names.
C5_Normalisation ==
    /\ norm_pc = "done" =>
            /\ words = ExpectedWords(text, max_word_length)
            /\ words \cap IGNORED_WORDS = {}
    /\ AppleResult = AppleWords

\* a text with a stop-list word, a delimiter and an upper-case word has been normalised
C5_Witness ==
    /\ text = <<"i","t","e","m", ",", "B">>
    /\ norm_pc = "done"
    /\ words = { <<"b">> }

HasNoDelimiter(t) == \A i \in 1..Len(t) : t[i] \notin Delimiters

\* C6 as stated: a text without delimiter that is longer than max_word_length
\* normalises to the empty set.
C6_RawLength ==
    (norm_pc = "done" /\ HasNoDelimiter(text) /\ Len(text) > max_word_length)
        => words = {}

\* C6 as amended: a text without delimiter whose length, after its HTML tags are
\* removed and its surrounding whitespace is trimmed, exceeds max_word_length
\* normalises to the empty set.
C6_TrimmedLength ==
    (norm_pc = "done" /\ HasNoDelimiter(text)
        /\ Len(strip(subTags(text))) > max_word_length)
        => words = {}

\* a three-letter text without delimiter was normalised under the bound 2
C6_Witness ==
    /\ text = <<"a", "B", "a">>
    /\ max_word_length = ShortMaxWordLength
    /\ norm_pc = "done"
    /\ words = {}

(***************************************************************************)
(* Claims about the deduplication engine                                   *)
(***************************************************************************)
Called(op) == call /= NotCalled /\ call.op = op

Returned(op) == Called(op) /\ call.result.raised = "none"

\* the candidates and the reference notes of the recorded call
Candidates ==
    IF Called("remove_duplicate_notes") THEN Range(load_notes(call.new_deck_name))
    ELSE Range(load_notes_from_apkg)

Reference ==
    IF call.existing_collection.given THEN Range(call.existing_collection.rows)
    ELSE {AnkiNote(collection[i]) : i \in 1..Len(collection)}

Kept == Range(call.result.rows)

\* trimmed, lower-cased field text
Normalised(x) == strip(lower(x))

HasField(note, index) == index < Len(note.fields)

FieldOf(note, index) == note.fields[index + 1]

\* the two notes agree at the index under the comparison of the call
FieldsAgree(a, b, index, custom_comparison) ==
    /\ HasField(a, index)
    /\ HasField(b, index)
    /\ IF custom_comparison = "None"
       THEN Normalised(FieldOf(a, index)) = Normalised(FieldOf(b, index))
       ELSE FieldOf(a, index) = FieldOf(b, index)

\* the note has a card in the deck, by the stored deck names of the collection
BelongsToDeck(note, deck_name) ==
    \E i \in 1..Len(collection) :
        /\ collection[i].id = note.id
        /\ replace(deck_name, <<":", ":">>, <<US>>) \in collection[i].decks

\* the match predicate of the exact strategy
ExactDuplicate(c) ==
    \E r \in Reference :
        /\ ~BelongsToDeck(r, call.new_deck_name)
        /\ FieldsAgree(c, r, call.comparison_field_index, call.custom_comparison)

\* the match predicate of the word-overlap strategy
WordDuplicate(c) ==
    \E j \in 1..Len(c.fields) :
        \E w \in normalize_and_split(c.fields[j], DEFAULT_MAX_WORD_LENGTH) :
            \E r \in Reference : \E k \in 1..Len(r.fields) :
                w \in normalize_and_split(r.fields[k], DEFAULT_MAX_WORD_LENGTH)

\* C3: under both strategies the returned unique notes and the candidates for
\* which the strategy's match predicate holds partition the candidates.
C3_Complementarity ==
    /\ Called("remove_duplicate_notes") =>
          LET duplicate == {c \in Candidates : ExactDuplicate(c)}
          IN  /\ call.result.raised = "none"
              /\ Kept \cup duplicate = Candidates
              /\ Kept \cap duplicate = {}
    /\ Called("deduplicate_external_deck") =>
          LET duplicate == {c \in Candidates : WordDuplicate(c)}
          IN  /\ call.result.raised = "none"
              /\ Kept \cup duplicate = Candidates
              /\ Kept \cap duplicate = {}

\* remove_duplicate_notes split two candidates into a kept and a dropped one
C3_Witness ==
    /\ Returned("remove_duplicate_notes")
    /\ Cardinality(Candidates) = 2
    /\ Cardinality(Kept) = 1
    /\ \E c \in Candidates : ExactDuplicate(c)

\* C4: deduplicate_external_deck drops a candidate exactly when one of its
\* fields yields a token that some field of some reference note yields too.
C4_WordOverlap ==
    Called("deduplicate_external_deck") =>
        /\ call.result.raised = "none"
        /\ \A c \in Candidates : (c \notin Kept) <=> WordDuplicate(c)
        /\ Kept \subseteq Candidates

\* a candidate was dropped for a token of its second field alone, another whose
\* only token is a stop-list word was kept
C4_Witness ==
    /\ Returned("deduplicate_external_deck")
    /\ \E c \in Candidates :
          /\ c \notin Kept
          /\ Len(c.fields) = 2
          /\ \A r \in Reference : \A k \in 1..Len(r.fields) :
                normalize_and_split(c.fields[1], DEFAULT_MAX_WORD_LENGTH)
                    \cap normalize_and_split(r.fields[k], DEFAULT_MAX_WORD_LENGTH) = {}
    /\ \E c \in Kept : c.fields = << <<"i", "t", "e", "m">> >>
    /\ \E r \in Reference : r.fields = << <<"i", "t", "e", "m">> >>

\* C7: remove_duplicate_notes drops a candidate exactly when a reference note
\* outside the candidate deck agrees with it at comparison_field_index (trimmed
\* and lower-cased, or under the custom comparison); reference notes of the
\* candidate deck never cause a drop.
C7_ExactStrategy ==
    Called("remove_duplicate_notes") =>
        /\ call.result.raised = "none"
        /\ Kept \subseteq Candidates
        /\ \A c \in Candidates : (c \notin Kept) <=> ExactDuplicate(c)
        /\ \A c \in Candidates :
              (\A r \in Reference :
                    FieldsAgree(c, r, call.comparison_field_index, call.custom_comparison)
                        => BelongsToDeck(r, call.new_deck_name))
                  => c \in Kept

\* with the default comparison one candidate was dropped for a note of another
\* deck that differs from it in case and spacing, and one was kept although the
\* reference collection holds that very note
C7_Witness ==
    /\ Returned("remove_duplicate_notes")
    /\ call.custom_comparison = "None"
    /\ ~call.existing_collection.given
    /\ \E c \in Candidates : \E r \in Reference :
          /\ c \notin Kept
          /\ ~BelongsToDeck(r, call.new_deck_name)
          /\ FieldsAgree(c, r, call.comparison_field_index, "None")
          /\ FieldOf(c, call.comparison_field_index) /= FieldOf(r, call.comparison_field_index)
    /\ \E c \in Kept : \E r \in Reference :
          /\ r.id = c.id
          /\ BelongsToDeck(r, call.new_deck_name)
          /\ FieldsAgree(c, r, call.comparison_field_index, "None")

\* the rows that have a field at the index
WithField(notes, index) ==
    LET Has(note) == HasField(note, index)
    IN  SelectSeq(notes, Has)

Overlapping(notes, others, index) ==
    {i \in 1..Len(notes) :
        \E j \in 1..Len(others) : FieldsAgree(notes[i], others[j], index, "None")}

\* two decks of ten notes, w0..w9 and W0, w1, " w2 ", v3..v9: three notes agree
Digits == <<"0", "1", "2", "3", "4", "5", "6", "7", "8", "9">>

ExampleDeck1 == [i \in 1..10 |-> [id |-> i, fields |-> << <<"w", Digits[i]>> >>]]

ExampleDeck2 ==
    [i \in 1..10 |->
        [id |-> 10 + i,
         fields |-> << IF i = 1 THEN <<"W", Digits[i]>>
                       ELSE IF i = 3 THEN <<" ", "w", Digits[i], " ">>
                       ELSE IF i = 2 THEN <<"w", Digits[i]>>
                       ELSE <<"v", Digits[i]>> >>]]

ExampleStatistics == overlap_statistics(ExampleDeck1, ExampleDeck2, 0)

\* C9: overlap_notes counts the deck1 notes that agree with at least one deck2
\* note, deck1_unique_notes = deck1_total_notes - overlap_notes and
\* overlap_percentage_deck1 = 100 * overlap_notes / deck1_total_notes; two decks
\* of ten notes with exactly three agreeing notes give 3, 7, 7 and 30 percent.
C9_OverlapDeck1 ==
    /\ Called("analyze_deck_overlap") =>
          LET deck1_notes == load_notes(call.deck1_name)
              deck2_notes == load_notes(call.deck2_name)
              r == call.result
          IN  /\ r.raised = "none"
              /\ r.deck1_total_notes = Len(deck1_notes)
              /\ r.overlap_notes =
                    Cardinality(Overlapping(deck1_notes, deck2_notes,
                                            call.comparison_field_index))
              /\ r.deck1_unique_notes = r.deck1_total_notes - r.overlap_notes
              /\ r.deck1_total_notes > 0 =>
                    r.overlap_percentage_deck1.num * r.deck1_total_notes
                        = 100 * r.overlap_notes * r.overlap_percentage_deck1.den
    /\ ExampleStatistics.raised = "none"
    /\ ExampleStatistics.overlap_notes = 3
    /\ ExampleStatistics.deck1_unique_notes = 7
    /\ ExampleStatistics.deck2_unique_notes = 7
    /\ ExampleStatistics.overlap_percentage_deck1.num
          = 30 * ExampleStatistics.overlap_percentage_deck1.den

\* two different decks were analysed: deck1 has three notes, one of them agrees
\* with a deck2 note
C9_Witness ==
    /\ Returned("analyze_deck_overlap")
    /\ call.deck1_name /= call.deck2_name
    /\ call.result.deck1_total_notes = 3
    /\ call.result.overlap_notes = 1
    /\ call.result.deck1_unique_notes = 2

\* C10: deck2_unique_notes is the number of deck2 notes that agree with no
\* deck1 note, also when several notes of one deck agree with the same note of
\* the other.
C10_OverlapDeck2 ==
    Returned("analyze_deck_overlap") =>
        LET deck1_notes == load_notes(call.deck1_name)
            deck2_notes == load_notes(call.deck2_name)
        IN  call.result.deck2_unique_notes =
                Len(deck2_notes)
                  - Cardinality(Overlapping(deck2_notes, deck1_notes,
                                            call.comparison_field_index))

\* C11: analyze_deck_overlap called with the same non-empty deck as both
\* arguments does not report the deck as a 100% duplicate of itself.
C11_SelfComparison ==
    (/\ Returned("analyze_deck_overlap")
     /\ call.deck1_name = call.deck2_name
     /\ call.result.deck1_total_notes > 0)
    => call.result.overlap_percentage_deck1.num
          /= 100 * call.result.overlap_percentage_deck1.den

(***************************************************************************)
(* Claims about export_cards_to_deck                                       *)
(***************************************************************************)
Exported == export_pc \in {"exported", "reimported"}

\* the cards passed to export_cards_to_deck
ExportedCards == SubSeq(original.cards, 1, export_args.taken)

\* the model the call was made with
ExportModel == IF export_args.model = None THEN BASIC_MODEL ELSE export_args.model.model

\* C12: exporting a card set in which some card has no note-type reference
\* fails with MissingModelError or MissingNoteIdError and writes no package.
C12_RefusesIncomplete ==
    (Exported /\ \E i \in 1..Len(ExportedCards) : ExportedCards[i].model = None)
    => /\ export_args.raised \in {"MissingModelError", "MissingNoteIdError"}
       /\ output = EmptyArchive

\* the field values a note of the model must hold for a card
ExpectedFields(card_fields, model) ==
    [k \in 1..Len(model.fields) |->
        IF k <= Len(card_fields) THEN card_fields[k] ELSE <<>>]

\* C13: for every card and every model export_cards_to_deck writes a note with
\* exactly len(model.fields) values, the card's values in order, cut after the
\* model's field count or padded at the end with empty strings; no card is
\* rejected because of its field count.
C13_PadOrTruncate ==
    /\ Exported =>
          /\ export_args.raised = "none"
          /\ Len(output.notes) = Len(ExportedCards)
          /\ \A i \in 1..Len(ExportedCards) :
                LET written == splitOn(output.notes[i].flds, US)
                IN  /\ Len(written) = Len(ExportModel.fields)
                    /\ written = ExpectedFields(ExportedCards[i].fields, ExportModel)
    /\ note_fields(<< <<"x">> >>, BASIC_MODEL) = << <<"x">>, <<>> >>
    /\ note_fields(<< <<"x">>, <<"y">>, <<"z">> >>, BASIC_MODEL) = << <<"x">>, <<"y">> >>
    /\ note_fields(<<>>, BASIC_MODEL) = << <<>>, <<>> >>

\* two cards were exported: one with three values under the basic model of two
\* fields, or one with two values under the vocabulary model of seven fields
C13_Witness ==
    /\ Exported
    /\ Len(ExportedCards) = 2
    /\ \/ /\ export_args.model = None
          /\ \E i \in 1..2 : /\ Len(ExportedCards[i].fields) = 3
                             /\ ExportedCards[i].fields[3] /= <<>>
                             /\ Len(splitOn(output.notes[i].flds, US)) = 2
       \/ /\ export_args.model /= None
          /\ \E i \in 1..2 : /\ Len(ExportedCards[i].fields) = 2
                             /\ Len(splitOn(output.notes[i].flds, US)) = 7

(***************************************************************************)
(* Building a vocabulary package (core/operations.py create_vocab_cards,   *)
(* anki.py anki_add_cards) and the deck ids of successive exports.         *)
(***************************************************************************)
\* no audio path given
NoPath == "None"

\* the audio files on disk and their contents
AudioFiles == ("ja1.mp3" :> "sound 1") @@ ("ja2.mp3" :> "sound 2")

\* audio_path.exists()
exists(audio_path) == audio_path \in DOMAIN AudioFiles

\* hashlib.md5(term.encode()).hexdigest()[:8] for the terms used here
md5_hexdigest_8 == ("t" :> "e358efa4") @@ ("u" :> "7b774eff")

\* f"audio_{hashlib.md5(term.encode()).hexdigest()[:8]}.mp3"
audio_filename_of(term) == <<"audio_", md5_hexdigest_8[term], ".mp3">>

NoStaging == [temp_dir |-> <<>>, media_files |-> <<>>, field |-> <<>>]

\* _add_audio: shutil.copy2 into the temporary directory (an existing file of
\* that name is overwritten), media_files.append, and the field text returned
add_audio(staging, audio_path, term) ==
    IF audio_path = NoPath \/ ~exists(audio_path)
    THEN [staging EXCEPT !.field = <<>>]
    ELSE LET audio_filename == audio_filename_of(term)
             IsOther(file) == file.name /= audio_filename
         IN  [temp_dir |-> Append(SelectSeq(staging.temp_dir, IsOther),
                                  [name |-> audio_filename,
                                   data |-> AudioFiles[audio_path]]),
              media_files |-> Append(staging.media_files, audio_filename),
              field |-> <<"[sound:">> \o audio_filename \o <<"]">>]

\* create_vocab_cards / anki_add_cards: the deck id, the loop over the cards,
\* the package with its media list, and package.write_to_file, which fails on
\* the first note because every note is built with model=None
create_vocab_cards(deck_name, cards, seed) ==
    LET deck_id == deck_id_of(seed, deck_name)
        RECURSIVE loop(_, _, _)
        loop(i, staging, notes) ==
            IF i > Len(cards) THEN [staging |-> staging, notes |-> notes]
            ELSE LET card == cards[i]
                     term_audio == add_audio(staging, card.audio_ja, card.term_ja)
                     meaning_audio == add_audio(term_audio, card.audio_en, card.term_en)
                     note == [model |-> None,
                              fields |-> <<card.term_ja, card.reading_ja, card.term_en,
                                           card.sentence_ja, card.sentence_en,
                                           term_audio.field, meaning_audio.field>>]
                 IN  loop(i + 1, meaning_audio, Append(notes, note))
        built == loop(1, NoStaging, <<>>)
        written == built.notes = <<>>
    IN  [op |-> "create_vocab_cards",
         deck_name |-> deck_name,
         cards |-> cards,
         deck_id |-> deck_id,
         notes |-> built.notes,
         media_files |-> built.staging.media_files,
         temp_dir |-> built.staging.temp_dir,
         written |-> written,
         cards_created |-> IF written THEN Len(cards) ELSE 0]

\* a call of export_cards_to_deck, seen as a package: the deck id is the id of
\* the deck of that name in the archive written, and no media is staged
export_package(deck_name, cards, seed) ==
    LET written == export_cards_to_deck(cards, deck_name, None, seed)
    IN  [op |-> "export_cards_to_deck",
         deck_name |-> deck_name,
         cards |-> cards,
         deck_id |-> (CHOOSE d \in written.decks : d.name = deck_name).id,
         notes |-> written.notes,
         media_files |-> <<>>,
         temp_dir |-> <<>>,
         written |-> TRUE,
         cards_created |-> Len(cards)]

\* what is remembered of the package built before the last one
Summary(package) ==
    IF package = NotCalled THEN NotCalled
    ELSE [op |-> package.op, deck_name |-> package.deck_name, deck_id |-> package.deck_id]

NoPackages == [previous |-> NotCalled, last |-> NotCalled]

(***************************************************************************)
(* The inputs of the package building calls: runs of the program, each     *)
(* with its own hash key, that build packages one after the other.         *)
(***************************************************************************)
MaxVocabCards == 2

PackageDeckNames == { <<"A">>, <<"A", ":", ":", "B">> }

Terms == {"t", "u"}

\* the requests: term_en is the first term, term_ja any term; audio_ja is a
\* file on disk or a path of no file, audio_en a file on disk or not given
AddVocabCardRequests ==
    [term_ja : Terms, reading_ja : {""}, term_en : {"t"},
     sentence_ja : {"s"}, sentence_en : {"e"},
     audio_ja : {"missing.mp3", "ja2.mp3"},
     audio_en : {NoPath, "ja1.mp3"}]

RECURSIVE ListsOf(_, _)
ListsOf(n, elements) ==
    IF n = 0 THEN {<<>>}
    ELSE LET shorter == ListsOf(n - 1, elements)
         IN  shorter \cup {Append(l, e) : l \in {u \in shorter : Len(u) = n - 1},
                                          e \in elements}

\* the cards passed to export_cards_to_deck here
ExportedCardLists ==
    { <<>>,
      << [id |-> 10, fields |-> << <<"x">>, <<"y">> >>, tags |-> <<>>, card_type |-> 0,
          deck_name |-> DefaultDeckName, model |-> None, note_id |-> 1] >> }

PackageInit ==
    /\ hash_seed \in HashSeeds
    /\ packages = NoPackages

CreateVocabCards ==
    /\ \E deck_name \in PackageDeckNames,
          cards \in ListsOf(MaxVocabCards, AddVocabCardRequests) :
          packages' = [previous |-> Summary(packages.last),
                       last |-> create_vocab_cards(deck_name, cards, hash_seed)]
    /\ UNCHANGED hash_seed
    /\ UNCHANGED varsExceptPackage

ExportPackage ==
    /\ \E deck_name \in PackageDeckNames, cards \in ExportedCardLists :
          packages' = [previous |-> Summary(packages.last),
                       last |-> export_package(deck_name, cards, hash_seed)]
    /\ UNCHANGED hash_seed
    /\ UNCHANGED varsExceptPackage

\* the program ends and is started again: the new process draws its hash key
NewRun ==
    /\ \E seed \in HashSeeds : hash_seed' = seed
    /\ UNCHANGED packages
    /\ UNCHANGED varsExceptPackage

InitPackage == PackageInit /\ IdleExceptPackage

NextPackage == CreateVocabCards \/ ExportPackage \/ NewRun

SpecPackage == InitPackage /\ [][NextPackage]_vars

(***************************************************************************)
(* Claims about the packages built                                         *)
(***************************************************************************)
\* C14: the deck id assigned on export is a function of the deck name only:
\* two exports (export_cards_to_deck, create_vocab_cards) to the same deck name
\* use the same deck id, in the same run or in different runs of the program.
C14_DeckIdByName ==
    (/\ packages.previous /= NotCalled
     /\ packages.last /= NotCalled
     /\ packages.previous.deck_name = packages.last.deck_name)
    => packages.previous.deck_id = packages.last.deck_id

\* the payloads create_vocab_cards stages, in staging order, with their filenames
RECURSIVE StagedPayloads(_)
StagedPayloads(cards) ==
    IF cards = <<>> THEN <<>>
    ELSE LET card == Head(cards)
             Staged(audio_path, term) ==
                 IF audio_path /= NoPath /\ exists(audio_path)
                 THEN << [name |-> audio_filename_of(term), data |-> AudioFiles[audio_path]] >>
                 ELSE <<>>
         IN  Staged(card.audio_ja, card.term_ja) \o Staged(card.audio_en, card.term_en)
                \o StagedPayloads(Tail(cards))

\* C15: the media list of a package holds each filename at most once, and when
\* two payloads are staged under the same filename the first one is bundled.
C15_MediaOncePerName ==
    (packages.last /= NotCalled /\ packages.last.op = "create_vocab_cards")
    => LET package == packages.last
           payloads == StagedPayloads(package.cards)
           First(name) == payloads[CHOOSE k \in 1..Len(payloads) :
                                      /\ payloads[k].name = name
                                      /\ \A j \in 1..(k - 1) : payloads[j].name /= name]
       IN  /\ \A i, j \in 1..Len(package.media_files) :
                 i /= j => package.media_files[i] /= package.media_files[j]
           /\ \A k \in 1..Len(package.temp_dir) :
                 package.temp_dir[k].data = First(package.temp_dir[k].name).data

(***************************************************************************)
(* Media references in fields (core/import_apkg.py detect_media_in_fields) *)
(***************************************************************************)
Quotes == {"\"", "'"}

\* the literal, given in lower case, is at position i of s, whatever the case
matchesAt(s, i, literal) ==
    /\ i + Len(literal) - 1 <= Len(s)
    /\ \A k \in 1..Len(literal) : lowerChar(s[i + k - 1]) = literal[k]

\* the length of the longest run of characters outside stop that starts at i
runLength(s, i, stop) ==
    LET ends == {j \in i..(Len(s) + 1) : j = Len(s) + 1 \/ s[j] \in stop}
    IN  (CHOOSE j \in ends : \A k \in ends : j <= k) - i

NoMatch == [found |-> FALSE]

\* one match of <img[^>]+src=["\']([^"\']+)["\'] starting at i: [^>]+ is greedy,
\* so of the places where src= and a quoted value follow, the last one inside
\* the run of characters other than ">" is taken
img_match_at(s, i) ==
    IF ~matchesAt(s, i, <<"<", "i", "m", "g">>) THEN NoMatch
    ELSE LET run == runLength(s, i + 4, {">"})
             Value(p) == runLength(s, p + 5, Quotes)
             tries == {k \in 1..run :
                         LET p == i + 4 + k
                         IN  /\ matchesAt(s, p, <<"s", "r", "c", "=">>)
                             /\ p + 4 <= Len(s)
                             /\ s[p + 4] \in Quotes
                             /\ Value(p) >= 1
                             /\ p + 5 + Value(p) <= Len(s)}
         IN  IF tries = {} THEN NoMatch
             ELSE LET k == CHOOSE t \in tries : \A u \in tries : u <= t
                      p == i + 4 + k
                  IN  [found |-> TRUE,
                       group |-> SubSeq(s, p + 5, p + 4 + Value(p)),
                       next |-> p + 6 + Value(p)]

\* one match of \[sound:([^\]]+)\] starting at i
sound_match_at(s, i) ==
    IF ~matchesAt(s, i, <<"[", "s", "o", "u", "n", "d", ":">>) THEN NoMatch
    ELSE LET n == runLength(s, i + 7, {"]"})
         IN  IF n >= 1 /\ i + 7 + n <= Len(s)
             THEN [found |-> TRUE, group |-> SubSeq(s, i + 7, i + 6 + n),
                   next |-> i + 8 + n]
             ELSE NoMatch

\* re.findall(r'<img[^>]+src=["\']([^"\']+)["\']', field, re.IGNORECASE):
\* the groups of the leftmost matches, which do not overlap
RECURSIVE findall_img(_, _)
findall_img(s, i) ==
    IF i > Len(s) THEN <<>>
    ELSE LET m == img_match_at(s, i)
         IN  IF m.found THEN <<m.group>> \o findall_img(s, m.next)
             ELSE findall_img(s, i + 1)

\* re.findall(r"\[sound:([^\]]+)\]", field, re.IGNORECASE)
RECURSIVE findall_sound(_, _)
findall_sound(s, i) ==
    IF i > Len(s) THEN <<>>
    ELSE LET m == sound_match_at(s, i)
         IN  IF m.found THEN <<m.group>> \o findall_sound(s, m.next)
             ELSE findall_sound(s, i + 1)

\* detect_media_in_fields: list(set(media_files)), a list of the distinct names
\* in no particular order, kept as their set
detect_media_in_fields(fields) ==
    UNION {Range(findall_img(fields[f], 1)) \cup Range(findall_sound(fields[f], 1)) :
              f \in 1..Len(fields)}

(***************************************************************************)
(* The inputs of detect_media_in_fields: a first field made of at most     *)
(* MaxMediaTokens pieces of markup, and at most one more field.            *)
(***************************************************************************)
MaxMediaTokens == 3

\* <img , <IMG , src="a.jpg",  data-src='B.png', >, [sound:a.mp3],
\* [SOUND:A.MP3] and plain text
MediaTokens ==
    { <<"<", "i", "m", "g", " ">>,
      <<"<", "I", "M", "G", " ">>,
      <<"s", "r", "c", "=", "\"", "a", ".", "j", "p", "g", "\"">>,
      <<" ", "d", "a", "t", "a", "-", "s", "r", "c", "=", "'", "B", ".", "p", "n", "g", "'">>,
      <<">">>,
      <<"[", "s", "o", "u", "n", "d", ":", "a", ".", "m", "p", "3", "]">>,
      <<"[", "S", "O", "U", "N", "D", ":", "A", ".", "M", "P", "3", "]">>,
      <<"x">> }

RECURSIVE ConcatenationsOf(_, _)
ConcatenationsOf(n, tokens) ==
    IF n = 0 THEN {<<>>}
    ELSE LET shorter == ConcatenationsOf(n - 1, tokens)
         IN  shorter \cup {s \o t : s \in shorter, t \in tokens}

\* the fields that may follow the first one: <img src="a.jpg">, [SOUND:a.mp3], x
SecondFields ==
    { <<"<", "i", "m", "g", " ", "s", "r", "c", "=", "\"", "a", ".", "j", "p", "g", "\"", ">">>,
      <<"[", "S", "O", "U", "N", "D", ":", "a", ".", "m", "p", "3", "]">>,
      <<"x">> }

MediaFieldLists ==
    {<<>>} \cup
    {<<first>> : first \in ConcatenationsOf(MaxMediaTokens, MediaTokens)} \cup
    {<<first, second>> : first \in ConcatenationsOf(MaxMediaTokens, MediaTokens),
                         second \in SecondFields}

MediaInit ==
    /\ media_fields \in MediaFieldLists
    /\ media_found = {}
    /\ media_pc = "start"

DetectMediaInFields ==
    /\ media_pc = "start"
    /\ media_found' = detect_media_in_fields(media_fields)
    /\ media_pc' = "done"
    /\ UNCHANGED media_fields
    /\ UNCHANGED varsExceptMedia

InitMedia == MediaInit /\ IdleExceptMedia

NextMedia == DetectMediaInFields

SpecMedia == InitMedia /\ [][NextMedia]_vars

(***************************************************************************)
(* Claims about detect_media_in_fields                                     *)
(***************************************************************************)
\* the filenames a field references by image markup: a quoted value after
\* src= that follows <img and at least one character, with no ">" in between
ImgReferences(field) ==
    LET Value(p) == runLength(field, p + 5, Quotes)
        InsideImgTag(p) ==
            \E i \in 1..(p - 5) :
                /\ matchesAt(field, i, <<"<", "i", "m", "g">>)
                /\ \A j \in (i + 4)..(p - 1) : field[j] /= ">"
        sources == {p \in 1..Len(field) :
                      /\ matchesAt(field, p, <<"s", "r", "c", "=">>)
                      /\ p + 4 <= Len(field)
                      /\ field[p + 4] \in Quotes
                      /\ Value(p) >= 1
                      /\ p + 5 + Value(p) <= Len(field)
                      /\ InsideImgTag(p)}
    IN  {SubSeq(field, p + 5, p + 4 + Value(p)) : p \in sources}

\* the filenames a field references by [sound:...] markup
SoundReferences(field) ==
    LET Name(i) == runLength(field, i + 7, {"]"})
        sounds == {i \in 1..Len(field) :
                     /\ matchesAt(field, i, <<"[", "s", "o", "u", "n", "d", ":">>)
                     /\ Name(i) >= 1
                     /\ i + 7 + Name(i) <= Len(field)}
    IN  {SubSeq(field, i + 7, i + 6 + Name(i)) : i \in sounds}

\* C16: detect_media_in_fields returns exactly the filenames referenced by an
\* <img ... src="..."> markup or a [sound:...] markup in any field, each once,
\* the keywords matched in any case and the filename in its original case;
\* the result is empty when no field contains a reference.
C16_MediaReferences ==
    media_pc = "done" =>
        media_found =
            UNION {ImgReferences(media_fields[f]) \cup SoundReferences(media_fields[f]) :
                      f \in 1..Len(media_fields)}

(***************************************************************************)
(* The template configuration decoder (core/operations.py and anki.py,     *)
(* _decode_template_config).  Bytes and characters are numbers: a byte is  *)
(* 0..255, a character is its code point.                                  *)
(***************************************************************************)
\* config_blob.decode("utf-8", errors="ignore") for sequences of one and two
\* bytes: a byte below 0x80 is a character, a lead byte 0xC2..0xDF followed by
\* a continuation byte 0x80..0xBF is one character, and a byte that starts no
\* valid sequence is dropped
RECURSIVE utf8_decode_ignore(_)
utf8_decode_ignore(bytes) ==
    IF bytes = <<>> THEN <<>>
    ELSE LET b == Head(bytes)
         IN  IF b < 128 THEN <<b>> \o utf8_decode_ignore(Tail(bytes))
             ELSE IF /\ b >= 194 /\ b <= 223
                     /\ Len(bytes) >= 2 /\ bytes[2] >= 128 /\ bytes[2] <= 191
                  THEN <<(b - 192) * 64 + (bytes[2] - 128)>>
                          \o utf8_decode_ignore(SubSeq(bytes, 3, Len(bytes)))
                  ELSE utf8_decode_ignore(Tail(bytes))

\* the code points str.strip() removes, below 0x300
SpaceCodes == {9, 10, 11, 12, 13, 28, 29, 30, 31, 32, 133, 160}

\* part.strip() on code points
strip_codes(s) ==
    LET keep == {i \in 1..Len(s) : s[i] \notin SpaceCodes}
    IN  IF keep = {} THEN <<>>
        ELSE SubSeq(s, CHOOSE i \in keep : \A j \in keep : i <= j,
                       CHOOSE i \in keep : \A j \in keep : j <= i)

\* the three field markers 0x0A, 0x12 and 0x1A, one branch of the loop each
IsMarker(c) == c = 10 \/ c = 18 \/ c = 26

\* the while loop: at a marker the next character is the length, the
\* characters after it are the part; the loop ends at a marker with no length
\* or with too few characters; any other character is skipped.  Each part is
\* kept with the marker that introduced it.
RECURSIVE scan_parts(_, _, _)
scan_parts(config_str, i, parts) ==
    IF i > Len(config_str) THEN parts
    ELSE IF IsMarker(config_str[i])
         THEN IF i + 1 <= Len(config_str)
              THEN LET length == config_str[i + 1]
                   IN  IF i + 1 + length <= Len(config_str)
                       THEN scan_parts(config_str, i + 2 + length,
                                Append(parts,
                                    [marker |-> config_str[i],
                                     part |-> strip_codes(SubSeq(config_str, i + 2,
                                                                 i + 1 + length))]))
                       ELSE parts
              ELSE parts
         ELSE scan_parts(config_str, i + 1, parts)

\* a config value that is not a bytes object (a NULL column), and one that is
NoBlob == [is_bytes |-> FALSE]

Blob(bytes) == [is_bytes |-> TRUE, bytes |-> bytes]

\* a variant that returns the parts found without padding them
decode_template_config_unpadded(config_blob) ==
    IF ~config_blob.is_bytes THEN << <<>>, <<>>, <<>> >>
    ELSE LET found == scan_parts(utf8_decode_ignore(config_blob.bytes), 1, <<>>)
         IN  [k \in 1..(IF Len(found) < 3 THEN Len(found) ELSE 3) |-> found[k].part]

\* _decode_template_config: the first three parts, padded with "" to three;
\* config_blob.decode raises for a value that is no bytes object, and the
\* except clause returns three empty strings
decode_template_config(config_blob) ==
    IF ~config_blob.is_bytes THEN << <<>>, <<>>, <<>> >>
    ELSE LET found == scan_parts(utf8_decode_ignore(config_blob.bytes), 1, <<>>)
         IN  [k \in 1..3 |-> IF k <= Len(found) THEN found[k].part ELSE <<>>]

(***************************************************************************)
(* The inputs of the decoder: a NULL config, or a blob made of at most     *)
(* MaxBlobPieces pieces.                                                   *)
(***************************************************************************)
MaxBlobPieces == 3

\* the sections 0A 01 'A', 12 01 'B' and 1A 02 ' ' 'C'; a marker alone; a
\* section announcing two characters but holding one; the invalid byte FF; the
\* two bytes of U+00E9; a plain character
BlobPieces ==
    { <<10, 1, 65>>, <<18, 1, 66>>, <<26, 2, 32, 67>>, <<10>>, <<18, 2, 65>>,
      <<255>>, <<195, 169>>, <<68>> }

ConfigBlobs == {NoBlob} \cup {Blob(b) : b \in ConcatenationsOf(MaxBlobPieces, BlobPieces)}

DecodeInit ==
    /\ template_config \in ConfigBlobs
    /\ decoded = <<>>
    /\ decode_pc = "start"

DecodeTemplateConfig ==
    /\ decode_pc = "start"
    /\ decoded' = decode_template_config(template_config)
    /\ decode_pc' = "done"
    /\ UNCHANGED template_config
    /\ UNCHANGED varsExceptDecode

InitDecode == DecodeInit /\ IdleExceptDecode

NextDecode == DecodeTemplateConfig

SpecDecode == InitDecode /\ [][NextDecode]_vars

(***************************************************************************)
(* Claims about _decode_template_config                                    *)
(***************************************************************************)
\* the sections the scan recognises in the blob of the call, with their markers
RecognisedSections ==
    IF template_config.is_bytes
    THEN scan_parts(utf8_decode_ignore(template_config.bytes), 1, <<>>)
    ELSE <<>>

\* C17: for every byte blob, empty, truncated and non-UTF-8 input included,
\* _decode_template_config returns exactly three strings and never raises; with
\* fewer than three recognised sections the missing ones are empty strings, and
\* an internal exception yields three empty strings.
C17_AlwaysThreeStrings ==
    decode_pc = "done" =>
        /\ Len(decoded) = 3
        /\ \A k \in 1..3 :
              /\ decoded[k] \in Seq(0..767)
              /\ k > Len(RecognisedSections) => decoded[k] = <<>>
        /\ ~template_config.is_bytes => decoded = << <<>>, <<>>, <<>> >>

\* a blob with one recognised section and a truncated one was decoded
C17_Witness ==
    /\ decode_pc = "done"
    /\ template_config = Blob(<<255, 10, 1, 65, 18, 2, 65>>)
    /\ decoded = << <<65>>, <<>>, <<>> >>

\* the sections introduced by one marker
SectionsOf(marker) ==
    SelectSeq(RecognisedSections, LAMBDA section : section.marker = marker)

\* C18: the text introduced by 0x0A is the first element, the text introduced
\* by 0x12 the second and the text introduced by 0x1A the third; a section
\* absent from the blob leaves the empty string in its own position.
C18_SectionOrder ==
    (/\ decode_pc = "done"
     /\ template_config.is_bytes
     /\ \A marker \in {10, 18, 26} : Len(SectionsOf(marker)) <= 1)
    => \A k \in 1..3 :
          LET sections == SectionsOf(<<10, 18, 26>>[k])
          IN  decoded[k] = IF sections = <<>> THEN <<>> ELSE sections[1].part

(***************************************************************************)
(* Deck names (core/tables.py): the collection stores the levels of a deck *)
(* name joined by 0x1F, the callers write and read them joined by "::".    *)
(***************************************************************************)
\* the live collection with the given decks rows, one note with one card in
\* each deck
CollectionOf(deck_rows) ==
    [decks |-> Range(deck_rows),
     notes |-> [i \in 1..Len(deck_rows) |->
                   [id |-> deck_rows[i].id, mid |-> BASIC_MODEL_ID,
                    flds |-> <<"x", US, "y">>, tags |-> <<>>]],
     cards |-> [i \in 1..Len(deck_rows) |->
                   [id |-> 10 * deck_rows[i].id, nid |-> deck_rows[i].id,
                    did |-> deck_rows[i].id, ord |-> 0,
                    type |-> 2, queue |-> 2, due |-> 100 - deck_rows[i].id,
                    reps |-> 3, lapses |-> 1, factor |-> 2500]]]

\* the keys of the characters of deck names under COLLATE unicase
UnicaseKey == (US :> 31) @@ (":" :> 58) @@ ("a" :> 97) @@ ("b" :> 98)

\* a name sorts before another one, or is equal to it, under COLLATE unicase
RECURSIVE UnicaseLeq(_, _)
UnicaseLeq(a, b) ==
    IF a = <<>> THEN TRUE
    ELSE IF b = <<>> THEN FALSE
    ELSE LET ka == UnicaseKey[lowerChar(Head(a))]
             kb == UnicaseKey[lowerChar(Head(b))]
         IN  IF ka /= kb THEN ka < kb ELSE UnicaseLeq(Tail(a), Tail(b))

\* ORDER BY d.name COLLATE unicase
RECURSIVE OrderByName(_)
OrderByName(rows) ==
    IF rows = {} THEN <<>>
    ELSE LET first == CHOOSE r \in rows : \A q \in rows : UnicaseLeq(r.name, q.name)
         IN  <<first>> \o OrderByName(rows \ {first})

\* load_decks: every deck with the number of its cards, its stored name
\* rewritten with "::" for 0x1F
load_decks(db) ==
    LET rows == OrderByName(db.decks)
    IN  [i \in 1..Len(rows) |->
            [name |-> replace(rows[i].name, <<US>>, <<":", ":">>),
             card_count |-> Cardinality({k \in 1..Len(db.cards) :
                                            db.cards[k].did = rows[i].id}),
             deck_id |-> rows[i].id]]

\* the notes rows of the collection, each with the stored names of the decks
\* that hold one of its cards (JOIN cards c ON c.nid = n.id JOIN decks d ON
\* c.did = d.id)
notes_joined(db) ==
    [i \in 1..Len(db.notes) |->
        [id |-> db.notes[i].id,
         fields |-> splitOn(db.notes[i].flds, US),
         decks |-> {d.name : d \in {e \in db.decks :
                       \E k \in 1..Len(db.cards) :
                           db.cards[k].nid = db.notes[i].id /\ db.cards[k].did = e.id}}]]

\* n.flds LIKE '%query%' for a query without the wildcards % and _ : the
\* query occurs in the stored fields, letters compared without case
like(flds, query) == \E i \in 1..(Len(flds) + 1) : matchesAt(flds, i, lower(query))

\* tables.search_cards(query, deck_name): the cards of the notes whose stored
\* fields hold the query, with a filter those of the deck of that name
search_cards(db, query, deck_name) ==
    LET search_name == replace(deck_name, <<":", ":">>, <<US>>)
        NoteOf(c) == CHOOSE n \in Range(db.notes) : n.id = c.nid
        DeckOf(c) == CHOOSE d \in db.decks : d.id = c.did
        Joined(c) ==
            /\ \E n \in Range(db.notes) : n.id = c.nid
            /\ \E d \in db.decks : d.id = c.did
            /\ like(NoteOf(c).flds, query)
            /\ deck_name /= <<>> => DeckOf(c).name = search_name
        rows == SelectSeq(db.cards, Joined)
    IN  [i \in 1..Len(rows) |->
            [id |-> rows[i].id,
             fields |-> splitOn(NoteOf(rows[i]).flds, US),
             tags |-> tags_of(NoteOf(rows[i])),
             card_type |-> rows[i].ord,
             deck_name |-> replace(DeckOf(rows[i]).name, <<US>>, <<":", ":">>),
             model |-> None,
             note_id |-> rows[i].nid]]

\* ORDER BY c.due, for rows of different due
RECURSIVE OrderByDue(_)
OrderByDue(rows) ==
    IF rows = {} THEN <<>>
    ELSE LET first == CHOOSE r \in rows : \A q \in rows : r.due <= q.due
         IN  <<first>> \o OrderByDue(rows \ {first})

\* a variant of load_cards_with_status that returns the deck names as they
\* are stored
load_cards_with_status_stored_names(db, deck_name) ==
    LET search_name == replace(deck_name, <<":", ":">>, <<US>>)
        DeckOf(c) == CHOOSE d \in db.decks : d.id = c.did
        Joined(c) ==
            /\ \E d \in db.decks : d.id = c.did
            /\ deck_name /= <<>> => DeckOf(c).name = search_name
        rows == OrderByDue({c \in Range(db.cards) : Joined(c)})
    IN  [i \in 1..Len(rows) |->
            [id |-> rows[i].id,
             type |-> rows[i].type,
             queue |-> rows[i].queue,
             due |-> rows[i].due,
             reps |-> rows[i].reps,
             lapses |-> rows[i].lapses,
             factor |-> rows[i].factor,
             deck_name |-> DeckOf(rows[i]).name]]

\* tables.load_cards_with_status(deck_name): the cards joined with their
\* decks, ordered by due, each with its study status
load_cards_with_status(db, deck_name) ==
    LET search_name == replace(deck_name, <<":", ":">>, <<US>>)
        DeckOf(c) == CHOOSE d \in db.decks : d.id = c.did
        Joined(c) ==
            /\ \E d \in db.decks : d.id = c.did
            /\ deck_name /= <<>> => DeckOf(c).name = search_name
        rows == OrderByDue({c \in Range(db.cards) : Joined(c)})
    IN  [i \in 1..Len(rows) |->
            [id |-> rows[i].id,
             type |-> rows[i].type,
             queue |-> rows[i].queue,
             due |-> rows[i].due,
             reps |-> rows[i].reps,
             lapses |-> rows[i].lapses,
             factor |-> rows[i].factor,
             deck_name |-> replace(DeckOf(rows[i]).name, <<US>>, <<":", ":">>)]]

NothingListed == [listed |-> <<>>, filtered |-> NotCalled]

(***************************************************************************)
(* The inputs of the deck listing and of the deck filter.                  *)
(***************************************************************************)
MaxDecks == 2

\* the levels of stored deck names: one colon may begin or end a level
DeckLevels == { <<"A">>, <<"B">>, <<"A", ":">>, <<":", "B">> }

\* stored names of one and of two levels
StoredNames == DeckLevels \cup {parent \o <<US>> \o child : parent, child \in DeckLevels}

\* the decks tables of at most n rows with different names; row i has id i
RECURSIVE DeckTablesOf(_)
DeckTablesOf(n) ==
    IF n = 0 THEN {<<>>}
    ELSE LET shorter == DeckTablesOf(n - 1)
             Unused(t) == {name \in StoredNames : \A k \in 1..Len(t) : t[k].name /= name}
         IN  shorter \cup
             UNION {{Append(t, [id |-> Len(t) + 1, name |-> name]) : name \in Unused(t)} :
                       t \in {u \in shorter : Len(u) = n - 1}}

\* deck names a caller writes without looking at a listing: "A", "A::B",
\* "B::A", and the stored form of "A::B"
WrittenNames ==
    { <<"A">>, <<"A", ":", ":", "B">>, <<"B", ":", ":", "A">>, <<"A", US, "B">> }

NamesInit ==
    /\ decks \in DeckTablesOf(MaxDecks)
    /\ name_call = NothingListed

\* load_decks()
LoadDecks ==
    /\ name_call' = [name_call EXCEPT !.listed = load_decks(CollectionOf(decks))]
    /\ UNCHANGED decks
    /\ UNCHANGED varsExceptNames

\* load_cards(deck_name), with a name the caller wrote or read in the listing
LoadCardsOfDeck ==
    /\ \E deck_name \in WrittenNames \cup {name_call.listed[i].name :
                                             i \in 1..Len(name_call.listed)} :
          name_call' = [name_call EXCEPT !.filtered =
                           [op |-> "load_cards", deck_name |-> deck_name,
                            result |-> load_cards(CollectionOf(decks), deck_name)]]
    /\ UNCHANGED decks
    /\ UNCHANGED varsExceptNames

\* the deck names a caller passes as a filter: written without looking at a
\* listing, or read in the listing; and no filter
DeckNameFilters ==
    WrittenNames \cup {name_call.listed[i].name : i \in 1..Len(name_call.listed)}
                 \cup {<<>>}

\* the texts a caller searches for: in the first field of every note in
\* another case, and in no note
Queries == { <<"X">>, <<"z">> }

\* load_notes(deck_name)
LoadNotesOfDeck ==
    /\ \E deck_name \in DeckNameFilters :
          name_call' = [name_call EXCEPT !.filtered =
                           [op |-> "load_notes", deck_name |-> deck_name,
                            result |-> load_notes_from(notes_joined(CollectionOf(decks)),
                                                        deck_name)]]
    /\ UNCHANGED decks
    /\ UNCHANGED varsExceptNames

\* search_cards(query, deck_name)
SearchCards ==
    /\ \E deck_name \in DeckNameFilters, query \in Queries :
          name_call' = [name_call EXCEPT !.filtered =
                           [op |-> "search_cards", deck_name |-> deck_name,
                            query |-> query,
                            result |-> search_cards(CollectionOf(decks), query, deck_name)]]
    /\ UNCHANGED decks
    /\ UNCHANGED varsExceptNames

\* load_cards_with_status(deck_name)
LoadCardsWithStatus ==
    /\ \E deck_name \in DeckNameFilters :
          name_call' = [name_call EXCEPT !.filtered =
                           [op |-> "load_cards_with_status", deck_name |-> deck_name,
                            result |-> load_cards_with_status(CollectionOf(decks), deck_name)]]
    /\ UNCHANGED decks
    /\ UNCHANGED varsExceptNames

InitNames == NamesInit /\ IdleExceptNames

NextNames == LoadDecks \/ LoadCardsOfDeck

(***************************************************************************)
(* The reads of the live collection that take a deck-name filter, against  *)
(* collections of a few decks.                                             *)
(***************************************************************************)
MaxReadDecks == 2

\* stored names of one, two and three levels, and one that holds "::"
ReadStoredNames ==
    { <<"A">>, <<"B">>, <<"A", US, "B">>, <<"B", US, "A">>,
      <<"A", US, "B", US, "A">>, <<"A", ":", ":", "B">> }

\* the decks tables of at most n rows with different names; row i has id i
RECURSIVE ReadTablesOf(_)
ReadTablesOf(n) ==
    IF n = 0 THEN {<<>>}
    ELSE LET shorter == ReadTablesOf(n - 1)
             Unused(t) == {name \in ReadStoredNames :
                              \A k \in 1..Len(t) : t[k].name /= name}
         IN  shorter \cup
             UNION {{Append(t, [id |-> Len(t) + 1, name |-> name]) : name \in Unused(t)} :
                       t \in {u \in shorter : Len(u) = n - 1}}

ReadsInit ==
    /\ decks \in ReadTablesOf(MaxReadDecks)
    /\ name_call = NothingListed

InitReads == ReadsInit /\ IdleExceptNames

NextReads ==
    \/ LoadDecks
    \/ LoadCardsOfDeck
    \/ LoadNotesOfDeck
    \/ SearchCards
    \/ LoadCardsWithStatus

SpecReads == InitReads /\ [][NextReads]_vars

SpecNames == InitNames /\ [][NextNames]_vars

(***************************************************************************)
(* Claims about the deck-name translation                                  *)
(***************************************************************************)
\* the translations the loaders apply to a deck name
ToInternal(name) == replace(name, <<":", ":">>, <<US>>)

ToExternal(name) == replace(name, <<US>>, <<":", ":">>)

\* a name in external notation holds no 0x1F
IsExternal(name) == \A i \in 1..Len(name) : name[i] /= US

Filtered == name_call.filtered /= NotCalled

\* C19: for every deck name s in external notation, translating s to the
\* internal form and the result back reproduces s exactly: the cards that
\* load_cards(s) returns carry the deck name s.
C19_ExternalRoundTrip ==
    (Filtered /\ IsExternal(name_call.filtered.deck_name))
    => LET s == name_call.filtered.deck_name
       IN  /\ ToExternal(ToInternal(s)) = s
           /\ \A i \in 1..Len(name_call.filtered.result) :
                 name_call.filtered.result[i].deck_name = s

\* load_cards("A::B") found the cards of the deck stored as A 0x1F B
C19_Witness ==
    /\ Filtered
    /\ name_call.filtered.deck_name = <<"A", ":", ":", "B">>
    /\ Len(name_call.filtered.result) = 1
    /\ \E i \in 1..Len(decks) : decks[i].name = <<"A", US, "B">>

\* the stored name of the deck with the id
StoredName(deck_id) == decks[CHOOSE i \in 1..Len(decks) : decks[i].id = deck_id].name

\* C20: two different internal deck names never translate to the same external
\* name, and translating an internal name to external and back returns it: the
\* deck found by a filter on a listed external name is the deck that was listed.
C20_NameBijection ==
    LET listed == name_call.listed
    IN  /\ \A i, j \in 1..Len(listed) :
              listed[i].deck_id /= listed[j].deck_id => listed[i].name /= listed[j].name
        /\ \A i \in 1..Len(listed) :
              /\ ToInternal(listed[i].name) = StoredName(listed[i].deck_id)
              /\ (Filtered /\ name_call.filtered.deck_name = listed[i].name)
                    => {name_call.filtered.result[k].id :
                           k \in 1..Len(name_call.filtered.result)}
                       = {10 * listed[i].deck_id}

\* the last read of the live collection that takes a deck-name filter
Read == name_call.filtered

\* the ids of the cards in the decks stored under the name
CardsStoredUnder(name) ==
    {10 * decks[i].id : i \in {k \in 1..Len(decks) : decks[k].name = name}}

\* the ids of the rows a read with the filter has to return: for load_notes
\* the notes (the note of card 10 * i has id i), for search_cards the cards of
\* the notes that hold the query
ExpectedIds ==
    LET all == {10 * decks[i].id : i \in 1..Len(decks)}
        in_deck == IF Read.deck_name = <<>> THEN all
                   ELSE CardsStoredUnder(ToInternal(Read.deck_name))
    IN  CASE Read.op = "load_notes" -> {id \div 10 : id \in in_deck}
          [] Read.op = "search_cards" ->
                IF Read.query = <<"X">> THEN in_deck ELSE {}
          [] OTHER -> in_deck

\* C21: every read that takes a deck-name filter (load_notes, load_cards,
\* search_cards, load_cards_with_status) compares the stored name with the
\* filter after replacing "::" by 0x1F, and every deck name returned by
\* load_decks, load_cards, search_cards and load_cards_with_status has 0x1F
\* replaced by "::", so no returned deck name contains 0x1F.
C21_TranslatedAtEveryBoundary ==
    /\ \A i \in 1..Len(name_call.listed) :
          /\ IsExternal(name_call.listed[i].name)
          /\ name_call.listed[i].name = ToExternal(StoredName(name_call.listed[i].deck_id))
    /\ Read /= NotCalled =>
          /\ {Read.result[k].id : k \in 1..Len(Read.result)} = ExpectedIds
          /\ Read.op /= "load_notes" =>
                \A k \in 1..Len(Read.result) :
                    /\ IsExternal(Read.result[k].deck_name)
                    /\ Read.result[k].deck_name
                          = ToExternal(StoredName(Read.result[k].id \div 10))

\* load_notes("A::B") returned the note of the deck stored as A 0x1F B, next
\* to a second deck
C21_Witness ==
    /\ Read.op = "load_notes"
    /\ Read.deck_name = <<"A", ":", ":", "B">>
    /\ Len(Read.result) = 1
    /\ Len(decks) = 2
    /\ \E i \in 1..Len(decks) : decks[i].name = <<"A", US, "B">>

(***************************************************************************)
(* Reading an .apkg file (core/import_apkg.py): load_notes_from_apkg,      *)
(* load_cards_from_apkg, get_apkg_deck_names and load_models_from_apkg     *)
(* check the path, extract the archive into a temporary directory, look    *)
(* for the collection database in it and read that database.  A read is    *)
(* followed statement by statement; read_call.pc is the statement it is    *)
(* about to execute.                                                       *)
(***************************************************************************)
NoError == ""

\* what is found at apkg_path: nothing, a file that is no ZIP archive, or an
\* archive with its member names and the database stored under the
\* collection names
NoFile == [exists |-> FALSE, is_zip |-> FALSE, members |-> {}, db |-> NotCalled]

NotAZip == [exists |-> TRUE, is_zip |-> FALSE, members |-> {}, db |-> NotCalled]

\* a variant of the path check that lets every path through
check_path_skipped(file) == NoError

\* if not apkg_path.exists(): raise FileNotFoundError(...)
check_path(file) == IF ~file.exists THEN "FileNotFoundError" ELSE NoError

\* zipfile.ZipFile(apkg_path, "r"), extractall(temp_path): the error raised,
\* and the names in the directory afterwards
extractall(file) ==
    IF ~file.exists THEN [error |-> "FileNotFoundError", extracted |-> {}]
    ELSE IF ~file.is_zip THEN [error |-> "BadZipFile", extracted |-> {}]
    ELSE [error |-> NoError, extracted |-> file.members]

\* collection.anki2, else collection.anki21, else ValueError
find_collection_db(extracted) ==
    IF "collection.anki2" \in extracted
    THEN [error |-> NoError, collection_db |-> "collection.anki2"]
    ELSE IF "collection.anki21" \in extracted
    THEN [error |-> NoError, collection_db |-> "collection.anki21"]
    ELSE [error |-> "ValueError", collection_db |-> ""]

\* the body of "with sqlite3.connect(collection_db) as conn" of the four
\* reads: the error raised, or the value the read goes on to return
read_database(op, db) ==
    LET Fails(e) == [error |-> e, value |-> <<>>]
        Gives(v) == [error |-> NoError, value |-> v]
        model_ids == {m.id : m \in db.data.models}
        unknown_model ==
            \E k \in 1..Len(db.data.cards) :
                \E n \in Range(db.data.notes) :
                    n.id = db.data.cards[k].nid /\ n.mid \notin model_ids
    IN  IF db.kind /= "sqlite" THEN Fails("DatabaseError")
        ELSE CASE op = "load_notes_from_apkg" ->
                    Gives(load_notes_from_archive(db.data))
               [] op = "load_cards_from_apkg" ->
                    IF ~db.json_ok THEN Fails("JSONDecodeError")
                    ELSE IF unknown_model THEN Fails("KeyError")
                    ELSE Gives(<<load_cards_from_archive(db.data),
                                 load_models_from_db(db.data)>>)
               [] op = "get_apkg_deck_names" ->
                    IF ~db.json_ok THEN Fails("JSONDecodeError")
                    ELSE Gives({d.name : d \in db.data.decks})
               [] op = "load_models_from_apkg" ->
                    IF ~db.json_ok THEN Fails("JSONDecodeError")
                    ELSE Gives(load_models_from_db(db.data))

\* a variant of leaving the with block that keeps the directory
TemporaryDirectory_exit_keeping(dirs, temp_dir) == dirs

\* leaving "with tempfile.TemporaryDirectory() as temp_dir": the directory
\* and everything in it is removed
TemporaryDirectory_exit(dirs, temp_dir) == dirs \ {temp_dir}

(***************************************************************************)
(* The files read.                                                         *)
(***************************************************************************)
MaxExtractions == 2

ArchiveReads ==
    {"load_notes_from_apkg", "load_cards_from_apkg", "get_apkg_deck_names",
     "load_models_from_apkg"}

\* the databases of an archive: a collection of at most one note, a file that
\* is no SQLite database, a collection whose col row holds no valid JSON, and
\* a collection whose note has a note type that the col row does not list
Databases ==
    LET collections == ArchivesOf(1, {SEINFELD_JSON})
        with_note == CHOOSE a \in collections : Len(a.notes) = 1
    IN  {[kind |-> "sqlite", json_ok |-> TRUE, data |-> a] : a \in collections}
        \cup {[kind |-> "not_a_database", json_ok |-> FALSE, data |-> EmptyArchive],
              [kind |-> "sqlite", json_ok |-> FALSE, data |-> with_note],
              [kind |-> "sqlite", json_ok |-> TRUE,
               data |-> [with_note EXCEPT !.models = {}]]}

ApkgFiles ==
    {NoFile, NotAZip}
    \cup {[exists |-> TRUE, is_zip |-> TRUE, members |-> members, db |-> db] :
            members \in SUBSET {"collection.anki2", "collection.anki21", "media"},
            db \in Databases}

ApkgInit ==
    /\ temp_dirs = {}
    /\ dirs_created = 0
    /\ read_call = NotCalled

\* the read is about to execute the statement; before the first call no read
\* is anywhere
ReadAt(pc) == IF read_call.op = "none" THEN FALSE ELSE read_call.pc = pc

\* one of the four reads is called and checks its path
CallArchiveRead ==
    /\ IF read_call.op = "none" THEN TRUE ELSE read_call.pc = "done"
    /\ dirs_created < MaxExtractions
    /\ \E op \in ArchiveReads, file \in ApkgFiles :
          \* temp_dir 0: the read has not created a directory
          LET error == check_path(file)
          IN  read_call' = [op |-> op, file |-> file,
                            pc |-> IF error = NoError THEN "with" ELSE "done",
                            temp_dir |-> 0, extracted |-> {},
                            collection_db |-> "", result |-> <<>>,
                            raised |-> error]
    /\ UNCHANGED <<temp_dirs, dirs_created>>
    /\ UNCHANGED varsExceptApkg

\* with tempfile.TemporaryDirectory() as temp_dir
EnterTemporaryDirectory ==
    /\ ReadAt("with")
    /\ dirs_created' = dirs_created + 1
    /\ temp_dirs' = temp_dirs \cup {dirs_created + 1}
    /\ read_call' = [read_call EXCEPT !.temp_dir = dirs_created + 1, !.pc = "extractall"]
    /\ UNCHANGED varsExceptApkg

\* with zipfile.ZipFile(apkg_path, "r") as zip_file: zip_file.extractall(temp_path)
ExtractAll ==
    /\ ReadAt("extractall")
    /\ LET done == extractall(read_call.file)
       IN  read_call' = [read_call EXCEPT
                            !.extracted = done.extracted,
                            !.raised = done.error,
                            !.pc = IF done.error = NoError THEN "find" ELSE "exit"]
    /\ UNCHANGED <<temp_dirs, dirs_created>>
    /\ UNCHANGED varsExceptApkg

\* collection_db = temp_path / "collection.anki2" ...
FindCollectionDb ==
    /\ ReadAt("find")
    /\ LET found == find_collection_db(read_call.extracted)
       IN  read_call' = [read_call EXCEPT
                            !.collection_db = found.collection_db,
                            !.raised = found.error,
                            !.pc = IF found.error = NoError THEN "read" ELSE "exit"]
    /\ UNCHANGED <<temp_dirs, dirs_created>>
    /\ UNCHANGED varsExceptApkg

\* with sqlite3.connect(collection_db) as conn: ...
ReadDatabase ==
    /\ ReadAt("read")
    /\ LET read == read_database(read_call.op, read_call.file.db)
       IN  read_call' = [read_call EXCEPT
                            !.result = read.value,
                            !.raised = read.error,
                            !.pc = "exit"]
    /\ UNCHANGED <<temp_dirs, dirs_created>>
    /\ UNCHANGED varsExceptApkg

\* the with block is left, by falling off its end or by the exception raised
\* in it; the read then returns or the exception reaches the caller
ExitTemporaryDirectory ==
    /\ ReadAt("exit")
    /\ temp_dirs' = TemporaryDirectory_exit(temp_dirs, read_call.temp_dir)
    /\ read_call' = [read_call EXCEPT !.pc = "done"]
    /\ UNCHANGED dirs_created
    /\ UNCHANGED varsExceptApkg

InitApkg == ApkgInit /\ IdleExceptApkg

NextApkg ==
    \/ CallArchiveRead
    \/ EnterTemporaryDirectory
    \/ ExtractAll
    \/ FindCollectionDb
    \/ ReadDatabase
    \/ ExitTemporaryDirectory

SpecApkg == InitApkg /\ [][NextApkg]_vars

(***************************************************************************)
(* Claims about the archive reads                                          *)
(***************************************************************************)
\* the read has finished: it returned, or raised to its caller
ReadFinished == ReadAt("done")

\* C22: every archive read fails with a not-found error when the input path
\* does not exist, before any extraction directory is created, and fails with
\* a format error (ValueError) when the extracted archive contains neither
\* collection.anki2 nor collection.anki21.
C22_NotFoundAndFormatErrors ==
    /\ (IF read_call.op = "none" THEN FALSE ELSE ~read_call.file.exists) =>
          /\ read_call.pc = "done"
          /\ read_call.raised = "FileNotFoundError"
          /\ read_call.temp_dir = 0
    /\ (/\ ReadFinished
        /\ read_call.file.is_zip
        /\ read_call.file.members \cap {"collection.anki2", "collection.anki21"} = {})
       => read_call.raised = "ValueError"

\* a read of an archive that holds only a media file raised the format error
C22_Witness ==
    /\ ReadFinished
    /\ read_call.file.is_zip
    /\ read_call.file.members = {"media"}
    /\ read_call.raised = "ValueError"

\* C23: after any archive read finishes, by returning its result, by raising
\* the format error, or by any exception during extraction, SQL reading or
\* JSON decoding, the temporary extraction directory it created has been
\* deleted; no sequence of reads leaves an extraction directory behind.
C23_ExtractionDirectoryDeleted ==
    /\ (IF read_call.op = "none" THEN TRUE ELSE read_call.pc = "done") => temp_dirs = {}
    /\ read_call.op /= "none" => temp_dirs \subseteq {read_call.temp_dir}

\* the second read that created a directory failed while decoding JSON
C23_Witness ==
    /\ ReadFinished
    /\ read_call.raised = "JSONDecodeError"
    /\ dirs_created = 2
    /\ read_call.temp_dir = 2

(***************************************************************************)
(* The package-writing calls on disk (core/operations.py create_vocab_cards, *)
(* anki.py anki_add_cards, core/export.py export_cards_to_deck): the       *)
(* media-staging directory, the errors of the file system, and how each    *)
(* call ends.                                                              *)
(***************************************************************************)
\* audio paths that exist and that shutil.copy2 cannot read
Unreadable == {"locked.mp3"}

\* the loop over the cards: the error of the first copy that fails
copy_error(cards) ==
    LET Copied(audio_path) == audio_path /= NoPath /\ audio_path \in Unreadable
    IN  IF \E i \in 1..Len(cards) : Copied(cards[i].audio_ja) \/ Copied(cards[i].audio_en)
        THEN "PermissionError"
        ELSE NoError

\* package.write_to_file(str(output_path)): genanki fails on the first note
\* that has no model, and the archive cannot be created where the output
\* directory is not writable
write_error(notes_have_model, note_count, writable) ==
    IF ~notes_have_model /\ note_count > 0 THEN "AttributeError"
    ELSE IF ~writable THEN "PermissionError"
    ELSE NoError

\* how a call ends: what it raised or returned, the error of the package
\* write, and whether its staging directory is still there
Ended(raised, failed_write, cards_created, staging_left) ==
    [raised |-> raised, returned |-> raised = NoError, write_error |-> failed_write,
     cards_created |-> cards_created, staging_left |-> staging_left]

\* create_vocab_cards: TemporaryDirectory(), the loop, then try / except
\* Exception / finally temp_dir.cleanup() around the package write
create_vocab_cards_on_disk(cards, writable) ==
    LET copying == copy_error(cards)
        writing == write_error(FALSE, Len(cards), writable)
    IN  IF copying /= NoError THEN Ended(copying, NoError, 0, TRUE)
        ELSE IF writing /= NoError THEN Ended(NoError, writing, 0, FALSE)
        ELSE Ended(NoError, NoError, Len(cards), FALSE)

\* anki_add_cards: the same, with try / finally temp_dir.cleanup()
anki_add_cards_on_disk(cards, writable) ==
    LET copying == copy_error(cards)
        writing == write_error(FALSE, Len(cards), writable)
    IN  IF copying /= NoError THEN Ended(copying, NoError, 0, TRUE)
        ELSE IF writing /= NoError THEN Ended(writing, writing, 0, FALSE)
        ELSE Ended(NoError, NoError, Len(cards), FALSE)

\* export_cards_to_deck: no staging directory, the package write unguarded
export_cards_to_deck_on_disk(cards, writable) ==
    LET writing == write_error(TRUE, Len(cards), writable)
    IN  IF writing /= NoError THEN Ended(writing, writing, 0, FALSE)
        ELSE Ended(NoError, NoError, Len(cards), FALSE)

(***************************************************************************)
(* The calls made.                                                         *)
(***************************************************************************)
MaxWriteCalls == 2

MaxStagedCards == 2

\* requests whose audio is missing, readable, unreadable or not given
StagedRequests ==
    [term_ja : {"t"}, reading_ja : {""}, term_en : {"t"},
     sentence_ja : {"s"}, sentence_en : {"e"},
     audio_ja : {"missing.mp3", "ja2.mp3", "locked.mp3"},
     audio_en : {NoPath, "locked.mp3"}]

\* the number of package-writing calls made so far
WriteCalls == IF write_call.op = "none" THEN 0 ELSE write_call.number

\* the state after a call that ended as given
AfterWrite(op, cards, writable, ended) ==
    /\ write_call' = [op |-> op, number |-> WriteCalls + 1, cards |-> cards,
                      writable |-> writable, ended |-> ended]
    /\ staging_dirs' = IF ended.staging_left
                       THEN staging_dirs \cup {WriteCalls + 1}
                       ELSE staging_dirs

WriteInit ==
    /\ staging_dirs = {}
    /\ write_call = NotCalled

CreateVocabCardsOnDisk ==
    /\ WriteCalls < MaxWriteCalls
    /\ \E cards \in ListsOf(MaxStagedCards, StagedRequests), writable \in BOOLEAN :
          AfterWrite("create_vocab_cards", cards, writable,
                     create_vocab_cards_on_disk(cards, writable))
    /\ UNCHANGED varsExceptWrite

AnkiAddCardsOnDisk ==
    /\ WriteCalls < MaxWriteCalls
    /\ \E cards \in ListsOf(MaxStagedCards, StagedRequests), writable \in BOOLEAN :
          AfterWrite("anki_add_cards", cards, writable,
                     anki_add_cards_on_disk(cards, writable))
    /\ UNCHANGED varsExceptWrite

ExportCardsToDeckOnDisk ==
    /\ WriteCalls < MaxWriteCalls
    /\ \E cards \in ExportedCardLists, writable \in BOOLEAN :
          AfterWrite("export_cards_to_deck", cards, writable,
                     export_cards_to_deck_on_disk(cards, writable))
    /\ UNCHANGED varsExceptWrite

\* a TemporaryDirectory object that was never cleaned up is finalized when
\* the interpreter collects it: its directory is removed then
FinalizeTemporaryDirectory ==
    /\ \E d \in staging_dirs : staging_dirs' = staging_dirs \ {d}
    /\ UNCHANGED write_call
    /\ UNCHANGED varsExceptWrite

InitWrite == WriteInit /\ IdleExceptWrite

NextWrite ==
    \/ CreateVocabCardsOnDisk
    \/ AnkiAddCardsOnDisk
    \/ ExportCardsToDeckOnDisk
    \/ FinalizeTemporaryDirectory

SpecWrite == InitWrite /\ [][NextWrite]_vars

(***************************************************************************)
(* Claims about the package-writing calls                                  *)
(***************************************************************************)
\* C24: create_vocab_cards and anki_add_cards delete their temporary
\* media-staging directory on every exit path, including an exception raised
\* while copying an audio file, before the package write is attempted: when
\* the call has ended its directory is gone.
C24_StagingDirectoryDeleted ==
    (IF write_call.op = "none" THEN FALSE
     ELSE write_call.op \in {"create_vocab_cards", "anki_add_cards"})
    => write_call.number \notin staging_dirs

\* C25: an error raised while the package is written propagates to the caller
\* of create_vocab_cards and of export_cards_to_deck: the call does not return
\* a result when the package could not be written.
C25_WriteErrorsPropagate ==
    (IF write_call.op = "none" THEN FALSE
     ELSE /\ write_call.op \in {"create_vocab_cards", "export_cards_to_deck"}
          /\ write_call.ended.write_error /= NoError)
    => /\ ~write_call.ended.returned
       /\ write_call.ended.raised = write_call.ended.write_error

(***************************************************************************)
(* Claims about the scan of the template configuration                     *)
(***************************************************************************)
\* the sections of a blob read byte by byte: at a tag byte the next byte is
\* the length L and the L bytes after it are the section's text; the scan ends
\* at a tag with no length or with fewer than L bytes left; any other byte is
\* skipped
RECURSIVE ByteSections(_, _)
ByteSections(bytes, i) ==
    IF i > Len(bytes) THEN <<>>
    ELSE IF IsMarker(bytes[i])
         THEN IF i + 1 <= Len(bytes) /\ i + 1 + bytes[i + 1] <= Len(bytes)
              THEN <<strip_codes(utf8_decode_ignore(
                         SubSeq(bytes, i + 2, i + 1 + bytes[i + 1])))>>
                      \o ByteSections(bytes, i + 2 + bytes[i + 1])
              ELSE <<>>
         ELSE ByteSections(bytes, i + 1)

\* C26: on a tag byte 0x0A, 0x12 or 0x1A the decoder takes the next byte of
\* the blob as the length L and consumes exactly the L following bytes of the
\* blob as that section's text, trimmed; bytes inside a consumed section are
\* never read as tags or lengths, and every other byte is skipped one at a
\* time: the tuple returned holds the first three sections read that way.
C26_ScanByBytes ==
    (decode_pc = "done" /\ template_config.is_bytes)
    => LET sections == ByteSections(template_config.bytes, 1)
       IN  decoded = [k \in 1..3 |-> IF k <= Len(sections) THEN sections[k] ELSE <<>>]

(***************************************************************************)
(* Claims about the order and the ranges of the deduplication results      *)
(***************************************************************************)
\* the candidates of the recorded call in the order they were loaded
CandidateRows ==
    IF Called("remove_duplicate_notes") THEN load_notes(call.new_deck_name)
    ELSE load_notes_from_apkg

\* sub is seq with some of its elements left out
RECURSIVE IsSubsequence(_, _)
IsSubsequence(sub, seq) ==
    IF sub = <<>> THEN TRUE
    ELSE IF seq = <<>> THEN FALSE
    ELSE IF Head(sub) = Head(seq) THEN IsSubsequence(Tail(sub), Tail(seq))
    ELSE IsSubsequence(sub, Tail(seq))

\* C27: the notes returned by deduplicate_external_deck and by
\* remove_duplicate_notes form a subsequence of the candidate notes: the same
\* relative order as the candidates, each kept note once and with unchanged id
\* and fields.
C27_InputOrderPreserved ==
    (Returned("remove_duplicate_notes") \/ Returned("deduplicate_external_deck"))
    => /\ IsSubsequence(call.result.rows, CandidateRows)
       /\ \A i, j \in 1..Len(call.result.rows) :
             i /= j => call.result.rows[i].id /= call.result.rows[j].id

\* remove_duplicate_notes compared two candidates with a note of another deck
\* and returned both, the first one first
C27_Witness ==
    /\ Returned("remove_duplicate_notes")
    /\ Len(collection) = 3
    /\ Len(CandidateRows) = 2
    /\ call.result.rows = <<CandidateRows[1], CandidateRows[2]>>
    /\ CandidateRows[1] /= CandidateRows[2]

\* C28: each figure reported by analyze_deck_overlap stays within its natural
\* range: 0 <= overlap_notes, 0 <= deck1_unique_notes <= deck1_total_notes,
\* 0 <= deck2_unique_notes <= deck2_total_notes, and both overlap percentages
\* lie between 0 and 100 (0 for an empty deck, without a division error).
C28_FiguresInRange ==
    Called("analyze_deck_overlap") =>
        LET r == call.result
            InRange(p) == 0 <= p.num /\ p.num <= 100 * p.den
        IN  /\ r.raised = "none"
            /\ 0 <= r.overlap_notes
            /\ 0 <= r.deck1_unique_notes /\ r.deck1_unique_notes <= r.deck1_total_notes
            /\ 0 <= r.deck2_unique_notes /\ r.deck2_unique_notes <= r.deck2_total_notes
            /\ InRange(r.overlap_percentage_deck1)
            /\ InRange(r.overlap_percentage_deck2)
            /\ r.deck1_total_notes = 0 => r.overlap_percentage_deck1.num = 0
            /\ r.deck2_total_notes = 0 => r.overlap_percentage_deck2.num = 0

(***************************************************************************)
(* The scan loop of _decode_template_config (core/operations.py), followed *)
(* one iteration at a time.  scan.i is the loop variable i, counted from 0 *)
(* as in the source; scan.pc is "start", "while", "pad" or "done".         *)
(***************************************************************************)
\* a variant of the loop body that does not move past a character that is no
\* marker
scan_step_stuck(config_str, i, parts) ==
    IF IsMarker(config_str[i + 1])
    THEN IF i + 1 < Len(config_str)
         THEN LET length == config_str[i + 2]
              IN  IF i + 2 + length <= Len(config_str)
                  THEN [i |-> i + 2 + length,
                        parts |-> Append(parts, strip_codes(SubSeq(config_str, i + 3,
                                                                   i + 2 + length))),
                        break |-> FALSE]
                  ELSE [i |-> i + 2, parts |-> parts, break |-> TRUE]
         ELSE [i |-> i + 1, parts |-> parts, break |-> TRUE]
    ELSE [i |-> i, parts |-> parts, break |-> FALSE]

\* one iteration of "while i < len(config_str)": the three marker branches
\* are the same statements; the values of i and parts after the iteration and
\* whether it left the loop by break
scan_step(config_str, i, parts) ==
    IF IsMarker(config_str[i + 1])
    THEN IF i + 1 < Len(config_str)
         THEN LET length == config_str[i + 2]
              IN  IF i + 2 + length <= Len(config_str)
                  THEN [i |-> i + 2 + length,
                        parts |-> Append(parts, strip_codes(SubSeq(config_str, i + 3,
                                                                   i + 2 + length))),
                        break |-> FALSE]
                  ELSE [i |-> i + 2, parts |-> parts, break |-> TRUE]
         ELSE [i |-> i + 1, parts |-> parts, break |-> TRUE]
    ELSE [i |-> i + 1, parts |-> parts, break |-> FALSE]

ScanInit ==
    \E config_blob \in ConfigBlobs :
        scan = [config_blob |-> config_blob, pc |-> "start", config_str |-> <<>>,
                i |-> 0, parts |-> <<>>, result |-> <<>>]

\* config_str = config_blob.decode("utf-8", errors="ignore"); parts = []; i = 0.
\* A config that is no bytes object raises, and the except clause returns
ScanStart ==
    /\ scan.pc = "start"
    /\ scan' = IF scan.config_blob.is_bytes
               THEN [scan EXCEPT !.config_str = utf8_decode_ignore(scan.config_blob.bytes),
                                 !.pc = "while"]
               ELSE [scan EXCEPT !.result = << <<>>, <<>>, <<>> >>, !.pc = "done"]
    /\ UNCHANGED varsExceptScan

\* the loop condition holds: one iteration
ScanIteration ==
    /\ scan.pc = "while"
    /\ scan.i < Len(scan.config_str)
    /\ LET after == scan_step(scan.config_str, scan.i, scan.parts)
       IN  scan' = [scan EXCEPT !.i = after.i, !.parts = after.parts,
                                !.pc = IF after.break THEN "pad" ELSE "while"]
    /\ UNCHANGED varsExceptScan

\* the loop condition fails
ScanLoopEnd ==
    /\ scan.pc = "while"
    /\ ~(scan.i < Len(scan.config_str))
    /\ scan' = [scan EXCEPT !.pc = "pad"]
    /\ UNCHANGED varsExceptScan

\* while len(parts) < 3: parts.append(""); return parts[0], parts[1], parts[2]
ScanReturn ==
    /\ scan.pc = "pad"
    /\ scan' = [scan EXCEPT
                   !.result = [k \in 1..3 |-> IF k <= Len(scan.parts) THEN scan.parts[k]
                                              ELSE <<>>],
                   !.pc = "done"]
    /\ UNCHANGED varsExceptScan

InitScan == ScanInit /\ IdleExceptScan

NextScan == ScanStart \/ ScanIteration \/ ScanLoopEnd \/ ScanReturn

\* the function runs in one thread and nothing suspends it: a statement that
\* can be executed is executed
SpecScan == InitScan /\ [][NextScan]_vars /\ WF_vars(NextScan)

(***************************************************************************)
(* Claims about the termination of the scan                                *)
(***************************************************************************)
\* C29: the scan terminates on every finite blob: every iteration of the scan
\* loop either strictly advances the scan position or stops the scan, also
\* when a length prefix is missing or announces more bytes than remain, and
\* the function returns.
C29_ScanTerminates ==
    /\ [][ScanIteration => (scan'.i > scan.i \/ scan'.pc /= "while")]_vars
    /\ <>(scan.pc = "done")

\* the scan of a section, of a plain character and of a section that
\* announces two characters and holds one has returned the one section
C29_Witness ==
    /\ scan.pc = "done"
    /\ scan.config_blob = Blob(<<10, 1, 65, 68, 18, 2, 65>>)
    /\ scan.i = 6
    /\ scan.result = << <<65>>, <<>>, <<>> >>

(***************************************************************************)
(* The tool registry (registry_demo.py).  Python values that meet in one   *)
(* parameter are kept with their type, so that "x or y" is computed as     *)
(* Python computes it for None, strings and lists.                         *)
(***************************************************************************)
NoneValue == [type |-> "NoneType", value |-> ""]

Str(s) == [type |-> "str", value |-> s]

List(items) == [type |-> "list", value |-> items]

\* bool(x)
Truthy(x) ==
    CASE x.type = "NoneType" -> FALSE
      [] x.type = "str"      -> x.value /= ""
      [] x.type = "list"     -> x.value /= <<>>

\* x or y
py_or(x, y) == IF Truthy(x) THEN x ELSE y

\* functools.wraps(func) applied to a new function object: __name__ and
\* __doc__ are copied from func
wraps(func, id) ==
    [id |-> id, name |-> func.name, doc |-> func.doc, wrapped |-> func.name]

\* FunctionDescription.__init__: the fields kept from the arguments.  The
\* signature, the argument model and the schema are derived from func, name
\* and doc_text.
FunctionDescription(func, name, doc_override, description, tags) ==
    LET self_name == py_or(name, Str(func.name))
    IN  [function    |-> func,
         name        |-> self_name.value,
         doc_text    |-> py_or(doc_override,
                               py_or(func.doc, Str("Function " \o self_name.value))),
         description |-> py_or(py_or(description, func.doc), Str("")),
         tags        |-> py_or(tags, List(<<>>))]

\* name in self._tools
Registered(registry, name) ==
    \E k \in 1..Len(registry) : registry[k].name = name

\* Registry.register(func, name, doc_override, description, tags): the
\* value of self._tools afterwards
Registry_register(registry, func, name, doc_override, description, tags) ==
    LET tool_name == py_or(name, Str(func.name))
    IN  IF Registered(registry, tool_name.value)
        THEN registry
        ELSE Append(registry,
                    FunctionDescription(func, tool_name, doc_override,
                                        description, tags))

\* register(doc=, name=, description=, tags=)(func): the wrapper returned and
\* REGISTRY._tools afterwards.  The call of REGISTRY.register passes
\* wrapper, doc, description and tags by position, so that they arrive as
\* func, name, doc_override and description, and tags keeps its default.
register(registry, func, id, doc, name, description, tags) ==
    LET wrapped == wraps(func, id)
        wrapper == IF Truthy(name)
                   THEN [wrapped EXCEPT !.name = name.value]
                   ELSE wrapped
    IN  [returned |-> wrapper,
         tools    |-> Registry_register(registry, wrapper, doc, description,
                                        tags, NoneValue)]

\* Registry.get_function(name)
get_function(registry, name) ==
    IF Registered(registry, name)
    THEN [raised   |-> NoError,
          function |-> registry[CHOOSE k \in 1..Len(registry) :
                                    registry[k].name = name].function]
    ELSE [raised |-> "KeyError"]

MaxWrappers == 2

\* the functions decorated: one with a docstring, one without
ToolFunctions ==
    {[name |-> "my_tool", doc |-> Str("adds")],
     [name |-> "other", doc |-> NoneValue]}

DocArguments == {NoneValue, Str("custom doc")}

NameArguments == {NoneValue, Str("custom_name")}

DescriptionArguments == {Str(""), Str("Tool description")}

TagsArguments == {NoneValue, List(<<"audio">>)}

LookupNames == {"my_tool", "other", "custom_name", "custom doc"}

\* @register(doc=, name=, description=, tags=) above a function definition
Register ==
    /\ wrappers < MaxWrappers
    /\ \E func \in ToolFunctions, doc \in DocArguments, name \in NameArguments,
          description \in DescriptionArguments, tags \in TagsArguments :
          LET made == register(tools, func, wrappers + 1, doc, name,
                               description, tags)
          IN  /\ tools' = made.tools
              /\ wrappers' = wrappers + 1
              /\ decorated' = [op |-> "register", func |-> func, doc |-> doc,
                               name |-> name, description |-> description,
                               tags |-> tags, returned |-> made.returned]
    /\ UNCHANGED lookup
    /\ UNCHANGED varsExceptRegistry

\* REGISTRY.get_function(name)
GetFunction ==
    /\ \E name \in LookupNames :
          lookup' = [op |-> "get_function", name |-> name,
                     result |-> get_function(tools, name)]
    /\ UNCHANGED <<tools, wrappers, decorated>>
    /\ UNCHANGED varsExceptRegistry

InitRegistry == RegistryIdle /\ IdleExceptRegistry

NextRegistry == Register \/ GetFunction

SpecRegistry == InitRegistry /\ [][NextRegistry]_vars

\* the tool name of the last decoration: name, or the function's own name
\* when no name is given
ToolNameOf(decoration) ==
    IF Truthy(decoration.name) THEN decoration.name.value
    ELSE decoration.func.name

\* C30: after a function is decorated with register(name=N, doc=D,
\* description=..., tags=...), get_function of N, or of the function's own
\* name when no name is given, returns the wrapper the decoration returned,
\* whatever doc, description and tags were passed.
C30_RegisteredUnderToolName ==
    IF decorated.op = "none" THEN TRUE
    ELSE LET got == get_function(tools, ToolNameOf(decorated))
         IN  IF got.raised /= NoError THEN FALSE
             ELSE got.function = decorated.returned

====
